---- MODULE Spec2Model ----
(***************************************************************************)
(* A model of the SysY-2022 middle end: the IR heap (values, operands,     *)
(* instructions, basic blocks, one function), the use-def primitives of    *)
(* ir_utils.c, the IR builder, the CFG and dominator analyses and the      *)
(* transform passes.  Pointers are indices into tables; NULL is 0.  Memory *)
(* comes from a pool that is never freed, so a record that is unlinked     *)
(* stays readable.                                                         *)
(***************************************************************************)
EXTENDS Integers, Sequences, FiniteSets, TLC

VARIABLES
    ir,     \* the heap: tables of values, operands, instructions, blocks, the function
    build,  \* how the program was built: with or without assert, and what a NULL access does
    last,   \* the call made by the last step, with what it was given and what it returned
    exec    \* a run in progress: of the function on a concrete argument (used to judge
            \* SCCP), or of the pass pipeline on a module

vars == <<ir, build, last, exec>>

NULL == 0

\* The one function of the module under optimisation.
F == 1

----------------------------------------------------------------------------
(* Sequence helpers *)

Range(s) == {s[i] : i \in 1..Len(s)}

RECURSIVE SeqWithout(_, _)
SeqWithout(s, x) ==
    IF s = <<>> THEN <<>>
    ELSE IF Head(s) = x THEN SeqWithout(Tail(s), x)
    ELSE <<Head(s)>> \o SeqWithout(Tail(s), x)

RECURSIVE RemoveFirst(_, _)
RemoveFirst(s, x) ==
    IF s = <<>> THEN <<>>
    ELSE IF Head(s) = x THEN Tail(s)
    ELSE <<Head(s)>> \o RemoveFirst(Tail(s), x)

Count(s, x) == Cardinality({i \in 1..Len(s) : s[i] = x})

IndexOf(s, x) == IF \E i \in 1..Len(s) : s[i] = x
                 THEN CHOOSE i \in 1..Len(s) : s[i] = x /\ \A j \in 1..(i-1) : s[j] # x
                 ELSE 0

----------------------------------------------------------------------------
(* The heap *)

\* The builds the sources admit: assert() compiled in or out (NDEBUG), and the two
\* things an access through a NULL pointer can do: trap, or go on with the access
\* skipped.
Builds == [ndebug : BOOLEAN, nullderef : {"segv", "proceed"}]

EmptyHeap ==
    [vals |-> <<>>, ops |-> <<>>, instrs |-> <<>>, bbs |-> <<>>,
     func |-> [entry |-> NULL, blocks |-> NULL, tail |-> NULL, block_count |-> 0,
               instruction_count |-> 0, args |-> <<>>, reverse_post_order |-> <<>>],
     builder |-> [current_bb |-> NULL, insert_point |-> NULL],
     status |-> "ok",
     erased |-> <<>>]

Ok(h) == h.status = "ok"
Stop(h, how) == [h EXCEPT !.status = how]

\* assert(cond): aborts a debug build; an NDEBUG build goes on.
AssertFails(h) == IF build.ndebug THEN h ELSE Stop(h, "abort")

\* An access through a NULL pointer.
NullDeref(h) == IF h.status = "ok" /\ build.nullderef = "segv" THEN Stop(h, "segv") ELSE h

\* A write past the end of a pool array: it traps, or lands in the pool memory
\* behind the array.
OutOfBounds(h) == IF h.status = "ok" /\ build.nullderef = "segv" THEN Stop(h, "segv") ELSE h

create_ir_value(h, cls, c) ==
    [h EXCEPT !.vals = Append(@, [is_constant |-> cls = "const", is_global |-> cls = "global",
                                  int_val |-> c, def_instr |-> NULL, use_list_head |-> NULL,
                                  cls |-> cls])]

create_ir_instruction(h, opcode) ==
    [h EXCEPT !.instrs = Append(@, [opcode |-> opcode, dest |-> NULL, operands |-> <<>>,
                                    parent |-> NULL, next |-> NULL, prev |-> NULL,
                                    in_worklist |-> FALSE, is_live |-> FALSE,
                                    phi_for_alloca |-> NULL, opcode_cond |-> ""])]

create_ir_basic_block(h) ==
    [h EXCEPT !.bbs = Append(@, [head |-> NULL, tail |-> NULL, parent |-> F,
                                 next_in_func |-> NULL, prev_in_func |-> NULL,
                                 successors |-> <<>>, predecessors |-> <<>>,
                                 capacity_successors |-> 0, capacity_predecessors |-> 0,
                                 size_successors |-> 0, size_predecessors |-> 0,
                                 post_order_id |-> 0, dom_tin |-> 0, dom_tout |-> 0,
                                 idom |-> NULL, dom_children |-> <<>>, dom_frontier |-> <<>>])]

NewVal(h) == Len(h.vals)
NewInstr(h) == Len(h.instrs)
NewBB(h) == Len(h.bbs)

\* The instructions of a block, head to tail along next.
RECURSIVE InstrChain(_, _, _)
InstrChain(h, i, fuel) ==
    IF i = NULL \/ fuel = 0 THEN <<>>
    ELSE <<i>> \o InstrChain(h, h.instrs[i].next, fuel - 1)

BlockInstrs(h, b) == InstrChain(h, h.bbs[b].head, Len(h.instrs) + 1)

\* The blocks of the function, along next_in_func.
RECURSIVE BlockChain(_, _, _)
BlockChain(h, b, fuel) ==
    IF b = NULL \/ fuel = 0 THEN <<>>
    ELSE <<b>> \o BlockChain(h, h.bbs[b].next_in_func, fuel - 1)

FuncBlocks(h) == BlockChain(h, h.func.blocks, Len(h.bbs) + 1)

\* The use list of a value, head first along next_use.
RECURSIVE UseChain(_, _, _)
UseChain(h, op, fuel) ==
    IF op = NULL \/ fuel = 0 THEN <<>>
    ELSE <<op>> \o UseChain(h, h.ops[op].next_use, fuel - 1)

UseList(h, v) == UseChain(h, h.vals[v].use_list_head, Len(h.ops) + 1)

\* The instructions linked in a block of the function, and their operands.
LinkedInstrs(h) == UNION {Range(BlockInstrs(h, FuncBlocks(h)[k])) : k \in 1..Len(FuncBlocks(h))}
LinkedOps(h) == UNION {Range(h.instrs[i].operands) : i \in LinkedInstrs(h)}

is_terminator_instruction(h, i) ==
    i # NULL /\ h.instrs[i].opcode \in {"ret", "br"}

----------------------------------------------------------------------------
(* Use-def primitives (ir_utils.c) *)

\* An instruction's operand list is kept as the sequence of its operands in order;
\* num_operands is its length.  The new operand goes to the end of the list and,
\* when it is a use of a register, to the head of the register's use list.
link_operand(h, instr, kind, data, linkUse) ==
    IF ~Ok(h) THEN h
    ELSE [h EXCEPT !.ops = Append(@, [kind |-> kind, data |-> data, user |-> instr,
                                      next_use |-> IF linkUse
                                                   THEN h.vals[data].use_list_head
                                                   ELSE NULL]),
                   !.instrs[instr].operands = Append(@, Len(h.ops) + 1),
                   !.vals = IF linkUse THEN [@ EXCEPT ![data].use_list_head = Len(h.ops) + 1]
                            ELSE @]

add_operand(h, instr, kind, data) ==
    IF ~Ok(h) \/ data = NULL THEN h
    ELSE link_operand(
             \* MemoryPool *pool = instr->parent->parent->module->pool;
             IF h.instrs[instr].parent = NULL \/ h.bbs[h.instrs[instr].parent].parent = NULL
             THEN NullDeref(h) ELSE h,
             instr, kind, data, kind = "value" /\ ~h.vals[data].is_constant)

add_value_operand(h, instr, val) == add_operand(h, instr, "value", val)

add_bb_operand(h, instr, bb) == add_operand(h, instr, "bb", bb)

\* The walk along the use list chain of a value for the operand before op, which
\* is at place k of the chain (0: not there).
unlink_use(h, op, chain, k) ==
    IF k > 1
    THEN [h EXCEPT !.ops[chain[k-1]].next_use = h.ops[op].next_use,
                   !.ops[op].next_use = NULL]
    ELSE IF Len(chain) > Len(h.ops) THEN Stop(h, "hang")  \* a cyclic list without op
    ELSE h

remove_use_of(h, op, val) ==
    IF val = NULL \/ h.vals[val].is_constant \/ h.vals[val].def_instr = NULL THEN h
    ELSE IF h.vals[val].use_list_head = op
         THEN [h EXCEPT !.vals[val].use_list_head = h.ops[op].next_use,
                        !.ops[op].next_use = NULL]
    ELSE unlink_use(h, op, UseList(h, val), IndexOf(UseList(h, val), op))

remove_operand_from_use_list(h, op) ==
    IF ~Ok(h) \/ h.ops[op].kind # "value" THEN h
    ELSE remove_use_of(h, op, h.ops[op].data)

\* The operand leaves the operand list of its instruction.
unlink_operand(h, op) ==
    IF ~Ok(h) THEN h
    ELSE [h EXCEPT !.instrs[h.ops[op].user].operands = RemoveFirst(@, op)]

remove_operand(h, op) ==
    IF ~Ok(h) \/ op = NULL THEN h
    ELSE unlink_operand(remove_operand_from_use_list(h, op), op)

\* The operand is given its new value and, when that is a defined register, put
\* at the head of its use list.
set_operand_value(h, op, new_val) ==
    IF ~Ok(h) THEN h
    ELSE IF new_val # NULL /\ ~h.vals[new_val].is_constant /\ h.vals[new_val].def_instr # NULL
         THEN [h EXCEPT !.ops[op].data = new_val,
                        !.ops[op].next_use = h.vals[new_val].use_list_head,
                        !.vals[new_val].use_list_head = op]
         ELSE [h EXCEPT !.ops[op].data = new_val, !.ops[op].next_use = NULL]

change_operand_value(h, op, new_val) ==
    IF ~Ok(h) THEN h
    ELSE IF h.ops[op].kind # "value" THEN Stop(h, "abort")   \* assert; no caller here passes a block operand
    ELSE IF h.ops[op].data = new_val THEN h
    ELSE set_operand_value(remove_operand_from_use_list(h, op), op, new_val)

\* worklist_add(wl, user) of the loop of replace_all_uses_with.
rauw_worklist_add(h, wl, user) ==
    IF Ok(h) /\ wl /\ user # NULL /\ h.instrs[user].opcode # "unknown"
       /\ ~h.instrs[user].in_worklist
    THEN [h EXCEPT !.instrs[user].in_worklist = TRUE]
    ELSE h

\* The loop of replace_all_uses_with. An iteration that changes nothing is followed
\* only by iterations that change nothing: the loop never exits.
RECURSIVE rauw_loop(_, _, _, _)
rauw_next(h, h2, wl, old_val, new_val) ==
    IF h2 = h THEN Stop(h, "hang") ELSE rauw_loop(h2, wl, old_val, new_val)

rauw_loop(h, wl, old_val, new_val) ==
    IF ~Ok(h) \/ h.vals[old_val].use_list_head = NULL THEN h
    ELSE rauw_next(h,
                   rauw_worklist_add(
                       change_operand_value(h, h.vals[old_val].use_list_head, new_val),
                       wl, h.ops[h.vals[old_val].use_list_head].user),
                   wl, old_val, new_val)

replace_all_uses_with(h, wl, old_val, new_val) ==
    IF ~Ok(h) \/ old_val = new_val \/ h.vals[old_val].use_list_head = NULL THEN h
    ELSE rauw_loop(h, wl, old_val, new_val)

\* new_instr is linked between prev and pos in block bb.
link_before(h, new_instr, pos, bb, prev) ==
    IF ~Ok(h) THEN h
    ELSE IF prev # NULL
         THEN [h EXCEPT !.instrs[new_instr].parent = bb,
                        !.instrs[new_instr].next = pos,
                        !.instrs[new_instr].prev = prev,
                        !.instrs[pos].prev = new_instr,
                        !.instrs[prev].next = new_instr]
    ELSE IF bb = NULL                                          \* bb->head = new_instr
         THEN NullDeref([h EXCEPT !.instrs[new_instr].parent = bb,
                                  !.instrs[new_instr].next = pos,
                                  !.instrs[new_instr].prev = prev,
                                  !.instrs[pos].prev = new_instr])
    ELSE [h EXCEPT !.instrs[new_instr].parent = bb,
                   !.instrs[new_instr].next = pos,
                   !.instrs[new_instr].prev = prev,
                   !.instrs[pos].prev = new_instr,
                   !.bbs[bb].head = new_instr]

insert_instr_before(h, new_instr, pos) ==
    IF ~Ok(h) THEN h
    ELSE link_before(IF h.instrs[pos].parent = NULL \/ h.instrs[new_instr].parent # NULL
                     THEN AssertFails(h) ELSE h,
                     new_instr, pos, h.instrs[pos].parent, h.instrs[pos].prev)

\* instr becomes the tail of bb, after the old tail if there is one.
link_at_end(h, bb, instr, tail) ==
    IF tail # NULL
    THEN [h EXCEPT !.instrs[instr].parent = bb,
                   !.instrs[instr].prev = tail,
                   !.instrs[instr].next = NULL,
                   !.bbs[bb].tail = instr,
                   !.instrs[tail].next = instr]
    ELSE [h EXCEPT !.instrs[instr].parent = bb,
                   !.instrs[instr].prev = tail,
                   !.instrs[instr].next = NULL,
                   !.bbs[bb].tail = instr,
                   !.bbs[bb].head = instr]

\* if (bb->parent) bb->parent->instruction_count++;
count_instruction(h, bb, by) ==
    IF Ok(h) /\ bb # NULL /\ h.bbs[bb].parent # NULL
    THEN [h EXCEPT !.func.instruction_count = @ + by]
    ELSE h

add_instr_to_bb_end(h, bb, instr) ==
    IF ~Ok(h) THEN h
    ELSE count_instruction(
             IF h.bbs[bb].tail # NULL /\ is_terminator_instruction(h, h.bbs[bb].tail)
             THEN insert_instr_before(h, instr, h.bbs[bb].tail)
             ELSE link_at_end(h, bb, instr, h.bbs[bb].tail),
             bb, 1)

RECURSIVE remove_all_operands(_, _)
remove_all_operands(h, instr) ==
    IF ~Ok(h) \/ h.instrs[instr].operands = <<>> THEN h
    ELSE remove_all_operands(remove_operand(h, Head(h.instrs[instr].operands)), instr)

\* Every call that gets past the first test is recorded in h.erased, with whether
\* the result still had uses at that moment.
log_erase(h, instr, I, used) ==
    [h EXCEPT !.erased = Append(@, [instr |-> instr, opcode |-> I.opcode,
                                    dest |-> I.dest, used |-> used])]

\* assert(!instr->dest || !instr->dest->use_list_head);
erase_checked(h, instr, I, used) ==
    IF used THEN AssertFails(log_erase(h, instr, I, used)) ELSE log_erase(h, instr, I, used)

\* if (instr->prev) instr->prev->next = instr->next; else bb->head = instr->next;
set_next_or_head(h, i, bb, next) ==
    IF i # NULL THEN [h EXCEPT !.instrs[i].next = next] ELSE [h EXCEPT !.bbs[bb].head = next]

\* if (instr->next) instr->next->prev = instr->prev; else bb->tail = instr->prev;
set_prev_or_tail(h, i, bb, prev) ==
    IF i # NULL THEN [h EXCEPT !.instrs[i].prev = prev] ELSE [h EXCEPT !.bbs[bb].tail = prev]

mark_erased(h, instr) ==
    [h EXCEPT !.instrs[instr].opcode = "unknown",
              !.instrs[instr].parent = NULL,
              !.instrs[instr].dest = NULL,
              !.instrs[instr].in_worklist = FALSE]

\* The instruction, whose fields were I, leaves the list of its block.
unlink_instruction(h, instr, I) ==
    IF ~Ok(h) THEN h
    ELSE mark_erased(IF I.parent = NULL THEN h
                     ELSE set_prev_or_tail(set_next_or_head(h, I.prev, I.parent, I.next),
                                           I.next, I.parent, I.prev),
                     instr)

erase_instruction(h, instr) ==
    IF ~Ok(h) \/ instr = NULL THEN h
    ELSE IF h.instrs[instr].opcode = "unknown" THEN h
    ELSE unlink_instruction(
             remove_all_operands(
                 count_instruction(
                     erase_checked(h, instr, h.instrs[instr],
                                   h.instrs[instr].dest # NULL
                                   /\ h.vals[h.instrs[instr].dest].use_list_head # NULL),
                     h.instrs[instr].parent, -1),
                 instr),
             instr, h.instrs[instr])

----------------------------------------------------------------------------
(* The IR builder (ir_builder.c) *)

ir_builder_init(h) ==
    [h EXCEPT !.builder = [current_bb |-> h.func.entry, insert_point |-> NULL]]

ir_builder_set_insertion_point(h, instr) ==
    [h EXCEPT !.builder = [current_bb |-> h.instrs[instr].parent, insert_point |-> instr]]

ir_builder_set_insertion_block_end(h, bb) ==
    [h EXCEPT !.builder = [current_bb |-> bb, insert_point |-> NULL]]

ir_builder_set_insertion_block_start(h, bb) ==
    [h EXCEPT !.builder = [current_bb |-> bb, insert_point |-> h.bbs[bb].head]]

insert_instruction_at_point(h, instr) ==
    IF ~Ok(h) THEN h
    ELSE IF h.builder.insert_point # NULL
         THEN insert_instr_before(h, instr, h.builder.insert_point)
         ELSE add_instr_to_bb_end(h, h.builder.current_bb, instr)

ir_builder_create_reg(h) == create_ir_value(h, "reg", 0)

\* instr->dest = ir_builder_create_reg(...); instr->dest->def_instr = instr;
set_dest(h, instr) ==
    [h EXCEPT !.instrs[instr].dest = NewVal(h), !.vals[NewVal(h)].def_instr = instr]

with_dest(h, instr) == set_dest(ir_builder_create_reg(h), instr)

\* The new instruction is the last of the table; the operands are wired while
\* it has no parent yet.
binary_op_operands(h, instr, lhs, rhs) ==
    insert_instruction_at_point(
        add_value_operand(add_value_operand(with_dest(h, instr), instr, lhs), instr, rhs),
        instr)

create_binary_op(h, op, lhs, rhs) ==
    binary_op_operands(create_ir_instruction(h, op), Len(h.instrs) + 1, lhs, rhs)

RECURSIVE first_non_phi(_, _)
first_non_phi(h, i) ==
    IF i # NULL /\ h.instrs[i].opcode = "phi" THEN first_non_phi(h, h.instrs[i].next) ELSE i

\* The PHI goes before pos, the first instruction of the block that is no PHI.
place_phi(h, instr, pos) ==
    IF pos # NULL THEN insert_instr_before(h, instr, pos)
    ELSE add_instr_to_bb_end(h, h.builder.current_bb, instr)

ir_builder_create_phi(h) ==
    place_phi(with_dest(create_ir_instruction(h, "phi"), Len(h.instrs) + 1),
              Len(h.instrs) + 1, first_non_phi(h, h.bbs[h.builder.current_bb].head))

ir_phi_add_incoming(h, phi, val, pred) ==
    IF ~Ok(h) THEN h
    ELSE IF \E k \in 1..Len(h.instrs[phi].operands) :
               LET o == h.ops[h.instrs[phi].operands[k]] IN o.kind = "bb" /\ o.data = pred
         THEN AssertFails(h)                                  \* assert(false); return;
         ELSE add_bb_operand(add_value_operand(h, phi, val), phi, pred)

br_to(h, dest, instr) ==
    IF ~Ok(h) THEN h
    ELSE add_instr_to_bb_end(add_bb_operand(create_ir_instruction(h, "br"), instr, dest),
                             h.builder.current_bb, instr)

ir_builder_create_br(h, dest) ==
    IF ~Ok(h) THEN h
    ELSE br_to(IF h.bbs[h.builder.current_bb].tail # NULL THEN AssertFails(h) ELSE h,
               dest, Len(h.instrs) + 1)

----------------------------------------------------------------------------
(* Well-formed inputs: a function whose blocks are linked in order, with      *)
(* block_count and tail kept, and instructions whose operands are in the use  *)
(* lists.  Each instruction is given its block before its operands are wired   *)
(* (as sccp.c:509-511 does), so that wiring dereferences no NULL parent.       *)

RECURSIVE add_operands(_, _, _)
add_operands(h, instr, specs) ==
    IF ~Ok(h) \/ specs = <<>> THEN h
    ELSE add_operands(add_operand(h, instr, Head(specs)[1], Head(specs)[2]), instr, Tail(specs))

set_parent(h, instr, bb) == [h EXCEPT !.instrs[instr].parent = bb]

emit_operands(h, bb, instr, hasDest, specs) ==
    add_instr_to_bb_end(
        add_operands(set_parent(IF hasDest THEN with_dest(h, instr) ELSE h, instr, bb),
                     instr, specs),
        bb, instr)

emit(h, bb, opcode, hasDest, specs) ==
    IF ~Ok(h) THEN h
    ELSE emit_operands(create_ir_instruction(h, opcode), bb, Len(h.instrs) + 1, hasDest, specs)

V(v) == <<"value", v>>
B(b) == <<"bb", b>>

\* A function of nblocks empty blocks 1..nblocks, block 1 the entry, with nargs
\* arguments as values 1..nargs.
RECURSIVE with_args(_, _)
add_arg(h) == [h EXCEPT !.func.args = Append(@, Len(h.vals))]

with_args(h, n) ==
    IF n = 0 THEN h
    ELSE add_arg(create_ir_value(with_args(h, n - 1), "arg", 0))

RECURSIVE with_blocks(_, _)
\* The new block, the last of the table, is linked after the blocks before it.
link_block(h) ==
    IF NewBB(h) = 1
    THEN [h EXCEPT !.func.entry = 1, !.func.blocks = 1, !.func.tail = 1,
                   !.func.block_count = 1]
    ELSE [h EXCEPT !.bbs[NewBB(h)].prev_in_func = NewBB(h) - 1,
                   !.bbs[NewBB(h) - 1].next_in_func = NewBB(h),
                   !.func.tail = NewBB(h), !.func.block_count = @ + 1]

with_blocks(h, n) ==
    IF n = 0 THEN h
    ELSE link_block(create_ir_basic_block(with_blocks(h, n - 1)))

function_skeleton(nargs, nblocks) == with_blocks(with_args(EmptyHeap, nargs), nblocks)

----------------------------------------------------------------------------
(* CFG construction (cfg_builder.c) *)

\* The successor and predecessor arrays are kept as sequences; num_successors and
\* num_predecessors are their lengths.

RECURSIVE cfg_reset(_, _)
cfg_reset(h, blocks) ==
    IF blocks = <<>> THEN h
    ELSE cfg_reset([h EXCEPT !.bbs[Head(blocks)].successors = <<>>,
                             !.bbs[Head(blocks)].predecessors = <<>>,
                             !.bbs[Head(blocks)].size_successors = 0,
                             !.bbs[Head(blocks)].size_predecessors = 0], Tail(blocks))

\* The arrays are allocated with exactly the number of entries they get; the
\* capacity fields are left as they were.
RECURSIVE cfg_exact_arrays(_, _)
cfg_exact_arrays(h, blocks) ==
    IF ~Ok(h) \/ blocks = <<>> THEN h
    ELSE cfg_exact_arrays(
             [h EXCEPT !.bbs[Head(blocks)].size_successors = Len(h.bbs[Head(blocks)].successors),
                       !.bbs[Head(blocks)].size_predecessors = Len(h.bbs[Head(blocks)].predecessors)],
             Tail(blocks))

OperandData(h, instr, k) == h.ops[h.instrs[instr].operands[k]].data

\* What the terminator of a block gives as successors.
terminator_successors(h, block) ==
    LET term == h.bbs[block].tail IN
    IF term = NULL THEN <<>>
    ELSE IF h.instrs[term].opcode = "br"
         THEN IF Len(h.instrs[term].operands) > 1
              THEN <<OperandData(h, term, 2), OperandData(h, term, 3)>>
              ELSE <<OperandData(h, term, 1)>>
         ELSE <<>>

RECURSIVE cfg_record_successors(_, _)
cfg_record_successors(h, blocks) ==
    IF blocks = <<>> THEN h
    ELSE cfg_record_successors(
             [h EXCEPT !.bbs[Head(blocks)].successors = terminator_successors(h, Head(blocks))],
             Tail(blocks))

\* The last pass: each block, in list order, is appended to the predecessors of each
\* of its successors in turn. A successor outside the function's list was not reset
\* and keeps an array of its old size: the write falls outside it.
RECURSIVE cfg_fill_predecessors(_, _, _)
cfg_fill_predecessors(h, blocks, i) ==
    IF ~Ok(h) \/ blocks = <<>> THEN h
    ELSE LET block == Head(blocks)
             succs == h.bbs[block].successors
         IN IF i > Len(succs) THEN cfg_fill_predecessors(h, Tail(blocks), 1)
            ELSE LET h0 == IF succs[i] \in Range(FuncBlocks(h)) THEN h ELSE NullDeref(h)
                 IN cfg_fill_predecessors(
                        [h0 EXCEPT !.bbs[succs[i]].predecessors = Append(@, block)], blocks, i + 1)

build_cfg_keeping_old_predecessors(h) ==
    IF ~Ok(h) \/ h.func.entry = NULL THEN h
    ELSE cfg_fill_predecessors(cfg_record_successors(h, FuncBlocks(h)), FuncBlocks(h), 1)

build_cfg(h) ==
    IF ~Ok(h) \/ h.func.entry = NULL THEN h
    ELSE cfg_exact_arrays(
             cfg_fill_predecessors(
                 cfg_record_successors(cfg_reset(h, FuncBlocks(h)), FuncBlocks(h)),
                 FuncBlocks(h), 1),
             FuncBlocks(h))

----------------------------------------------------------------------------
(* Dominator analysis (dominators.c, ir_utils.c) *)

Max(S) == CHOOSE x \in S : \A y \in S : y <= x
Min(S) == CHOOSE x \in S : \A y \in S : x <= y

RECURSIVE SortedSeq(_)
SortedSeq(S) == IF S = {} THEN <<>> ELSE <<Min(S)>> \o SortedSeq(S \ {Min(S)})

RECURSIVE assign_list_ids(_, _, _)
assign_list_ids(h, blocks, id) ==
    IF blocks = <<>> THEN h
    ELSE assign_list_ids([h EXCEPT !.bbs[Head(blocks)].post_order_id = id], Tail(blocks), id + 1)

\* visited[] is indexed by post_order_id; st = [visited, order].
RECURSIVE dfs_visit(_, _, _)
RECURSIVE dfs_successors(_, _, _, _)
dfs_visit(h, block, st) ==
    LET st1 == [st EXCEPT !.visited = @ \cup {h.bbs[block].post_order_id}]
        st2 == dfs_successors(h, block, 1, st1)
    IN [st2 EXCEPT !.order = Append(@, block)]

dfs_successors(h, block, i, st) ==
    IF i > Len(h.bbs[block].successors) THEN st
    ELSE LET succ == h.bbs[block].successors[i] IN
         dfs_successors(h, block, i + 1,
                        IF h.bbs[succ].post_order_id \in st.visited THEN st
                        ELSE dfs_visit(h, succ, st))

RECURSIVE number_post_order(_, _, _)
number_post_order(h, order, i) ==
    IF i > Len(order) THEN h
    ELSE number_post_order([h EXCEPT !.bbs[order[i]].post_order_id = i - 1], order, i + 1)

\* post_order[] has block_count entries and the traversal fills the first `count`.
\* When fewer blocks are reached than block_count, the assert fails; without it the
\* other entries are read uninitialised. They are kept as NULL here and every later
\* access through them is a NullDeref.
store_post_order(h, n, order) ==
    IF ~Ok(h) THEN h
    ELSE [number_post_order(h, order, 1) EXCEPT !.func.reverse_post_order =
             [k \in 1..n |-> IF n + 1 - k <= Len(order) THEN order[n + 1 - k] ELSE NULL]]

\* assert(count == block_count);
check_post_order(h, n, found) ==
    store_post_order(IF Len(found) # n THEN NullDeref(AssertFails(h)) ELSE h, n,
                     IF Len(found) > n THEN SubSeq(found, 1, n) ELSE found)

perform_post_order_traversal(h) ==
    check_post_order(h, h.func.block_count,
                     dfs_visit(h, h.func.entry, [visited |-> {}, order |-> <<>>]).order)

\* ctx->post_order[id], for id in 0..block_count-1.
PostOrderBlock(h, id) ==
    LET n == h.func.block_count IN
    IF id >= 0 /\ id < n THEN h.func.reverse_post_order[n - id] ELSE NULL

DomOf(doms, id) == IF id \in DOMAIN doms THEN doms[id] ELSE {}

RECURSIVE intersect_predecessors(_, _, _, _)
intersect_predecessors(h, doms, preds, acc) ==
    IF preds = <<>> THEN acc
    ELSE intersect_predecessors(h, doms, Tail(preds),
                                acc \cap DomOf(doms, h.bbs[Head(preds)].post_order_id))

RECURSIVE dominator_pass(_, _, _)
dominator_pass(h, doms, i) ==
    IF i > Len(h.func.reverse_post_order) THEN doms
    ELSE LET b == h.func.reverse_post_order[i] IN
         IF b = NULL \/ b = h.func.entry THEN dominator_pass(h, doms, i + 1)
         ELSE LET b_id == h.bbs[b].post_order_id
                  preds == h.bbs[b].predecessors
                  temp == (IF preds # <<>>
                           THEN intersect_predecessors(h, doms, Tail(preds),
                                    DomOf(doms, h.bbs[Head(preds)].post_order_id))
                           ELSE {}) \cup {b_id}
              IN dominator_pass(h, [doms EXCEPT ![b_id] = temp], i + 1)

RECURSIVE dominator_fixpoint(_, _)
dominator_fixpoint(h, doms) ==
    LET next == dominator_pass(h, doms, 1) IN
    IF next = doms THEN doms ELSE dominator_fixpoint(h, next)

\* Dom(b) for every post_order_id: the entry starts as {entry}, the others as all.
compute_dominator_sets(h) ==
    LET n == h.func.block_count
        entry_id == h.bbs[h.func.entry].post_order_id
    IN dominator_fixpoint(h, [id \in 0..(n - 1) |-> IF id = entry_id THEN {entry_id}
                                                    ELSE 0..(n - 1)])

\* Among the strict dominators of a block, the one the code takes as immediate.
pick_immediate_dominator(candidates) == Max(candidates)

RECURSIVE compute_immediate_dominators(_, _, _)
compute_immediate_dominators(h, doms, i) ==
    IF ~Ok(h) \/ i > Len(h.func.reverse_post_order) THEN h
    ELSE LET b == h.func.reverse_post_order[i] IN
         IF b = NULL THEN compute_immediate_dominators(NullDeref(h), doms, i + 1)
         ELSE IF b = h.func.entry
              THEN compute_immediate_dominators([h EXCEPT !.bbs[b].idom = NULL], doms, i + 1)
         ELSE LET b_id == h.bbs[b].post_order_id
                  candidates == (doms[b_id] \cap (0..(h.func.block_count - 1))) \ {b_id}
              IN IF candidates = {}
                 THEN compute_immediate_dominators(
                          NullDeref(AssertFails([h EXCEPT !.bbs[b].idom = NULL])), doms, i + 1)
                 ELSE compute_immediate_dominators(
                          [h EXCEPT !.bbs[b].idom =
                               PostOrderBlock(h, pick_immediate_dominator(candidates))],
                          doms, i + 1)

\* Children in the order of the function's block list.
RECURSIVE dominator_tree_children(_, _)
dominator_tree_children(h, blocks) ==
    IF blocks = <<>> THEN h
    ELSE dominator_tree_children(
             [h EXCEPT !.bbs[Head(blocks)].dom_children =
                  SelectSeq(FuncBlocks(h), LAMBDA c : h.bbs[c].idom = Head(blocks))],
             Tail(blocks))

build_dominator_tree(h) == dominator_tree_children(h, FuncBlocks(h))

\* The runner walks from predecessor p of b up the idom chain until idom(b),
\* adding b to the frontier of every block it passes. df maps ids to sets of ids;
\* r = [h, df].
RECURSIVE frontier_runner(_, _, _, _)
frontier_runner(r, b, runner, fuel) ==
    IF ~Ok(r.h) \/ runner = r.h.bbs[b].idom THEN r
    ELSE IF fuel = 0 THEN [r EXCEPT !.h = Stop(r.h, "hang")]
    ELSE IF runner = NULL THEN [r EXCEPT !.h = NullDeref(AssertFails(r.h))]
    ELSE LET id == r.h.bbs[runner].post_order_id
             df1 == IF id \in DOMAIN r.df
                    THEN [r.df EXCEPT ![id] = @ \cup {r.h.bbs[b].post_order_id}]
                    ELSE r.df
         IN frontier_runner([r EXCEPT !.df = df1], b, r.h.bbs[runner].idom, fuel - 1)

RECURSIVE frontier_predecessors(_, _, _)
frontier_predecessors(r, b, j) ==
    IF ~Ok(r.h) \/ j > Len(r.h.bbs[b].predecessors) THEN r
    ELSE frontier_predecessors(
             frontier_runner(r, b, r.h.bbs[b].predecessors[j], Len(r.h.bbs) + 1), b, j + 1)

RECURSIVE frontier_blocks(_, _)
frontier_blocks(r, i) ==
    IF ~Ok(r.h) \/ i > Len(r.h.func.reverse_post_order) THEN r
    ELSE LET b == r.h.func.reverse_post_order[i] IN
         IF b = NULL THEN frontier_blocks([r EXCEPT !.h = NullDeref(r.h)], i + 1)
         ELSE IF Len(r.h.bbs[b].predecessors) < 2 THEN frontier_blocks(r, i + 1)
         ELSE frontier_blocks(frontier_predecessors(r, b, 1), i + 1)

RECURSIVE store_frontiers(_, _, _)
store_frontiers(h, df, id) ==
    IF ~Ok(h) \/ id >= h.func.block_count THEN h
    ELSE LET b == PostOrderBlock(h, id)
             ids == SortedSeq(df[id] \cap (0..(h.func.block_count - 1)))
         IN IF b = NULL THEN store_frontiers(NullDeref(h), df, id + 1)
            ELSE store_frontiers(
                     [h EXCEPT !.bbs[b].dom_frontier =
                          [k \in 1..Len(ids) |-> PostOrderBlock(h, ids[k])]],
                     df, id + 1)

store_all_frontiers(r) == store_frontiers(r.h, r.df, 0)

compute_dominance_frontiers(h) ==
    store_all_frontiers(
        frontier_blocks([h |-> h, df |-> [id \in 0..(h.func.block_count - 1) |-> {}]], 1))

\* r = [h, time]
RECURSIVE dfs_dom_tree(_, _)
RECURSIVE dfs_dom_children(_, _, _)
dom_enter(r, bb) == [h |-> [r.h EXCEPT !.bbs[bb].dom_tin = r.time], time |-> r.time + 1]
dom_leave(r, bb) == [h |-> [r.h EXCEPT !.bbs[bb].dom_tout = r.time], time |-> r.time + 1]

dfs_dom_tree(r, bb) ==
    IF bb = NULL THEN r
    ELSE dom_leave(dfs_dom_children(dom_enter(r, bb), bb, 1), bb)

dfs_dom_children(r, bb, i) ==
    IF i > Len(r.h.bbs[bb].dom_children) THEN r
    ELSE dfs_dom_children(dfs_dom_tree(r, r.h.bbs[bb].dom_children[i]), bb, i + 1)

compute_dom_tree_timestamps(h) ==
    IF ~Ok(h) \/ h.func.entry = NULL THEN h
    ELSE dfs_dom_tree([h |-> h, time |-> 0], h.func.entry).h

\* The steps that follow the post-order numbering.
dominators_from_post_order(h) ==
    IF ~Ok(h) THEN h
    ELSE compute_dom_tree_timestamps(
             compute_dominance_frontiers(
                 build_dominator_tree(
                     compute_immediate_dominators(h, compute_dominator_sets(h), 1))))

compute_dominators(h) ==
    IF ~Ok(h) \/ h.func.entry = NULL THEN h
    ELSE dominators_from_post_order(
             perform_post_order_traversal(assign_list_ids(h, FuncBlocks(h), 0)))

dominates(h, dom, use) ==
    IF dom = use THEN TRUE
    ELSE IF dom = NULL \/ use = NULL THEN FALSE
    ELSE h.bbs[dom].dom_tin <= h.bbs[use].dom_tin /\ h.bbs[dom].dom_tout >= h.bbs[use].dom_tout

----------------------------------------------------------------------------
(* CFG and PHI maintenance (ir_utils.c) *)

\* op->next_in_instr
NextInInstr(h, op) ==
    LET ops == h.instrs[h.ops[op].user].operands
        k == IndexOf(ops, op)
    IN IF k > 0 /\ k < Len(ops) THEN ops[k + 1] ELSE NULL

\* The PHI instructions at the head of a block.
RECURSIVE PhiPrefix(_, _)
PhiPrefix(h, instrs) ==
    IF instrs = <<>> \/ h.instrs[Head(instrs)].opcode # "phi" THEN <<>>
    ELSE <<Head(instrs)>> \o PhiPrefix(h, Tail(instrs))

BlockPhis(h, b) == PhiPrefix(h, BlockInstrs(h, b))

\* remove_operand(op_val); remove_operand(op_block);
RECURSIVE remove_operands_in_turn(_, _)
remove_operands_in_turn(h, ops) ==
    IF ops = <<>> THEN h
    ELSE remove_operands_in_turn(remove_operand(h, Head(ops)), Tail(ops))

remove_phi_operand_pair(h, op_val) ==
    IF ~Ok(h) \/ op_val = NULL THEN h
    ELSE remove_operands_in_turn(IF NextInInstr(h, op_val) = NULL THEN AssertFails(h) ELSE h,
                                 <<op_val, NextInInstr(h, op_val)>>)

\* ops is the operand list as it was when the walk started: the walk follows the
\* next_in_instr pointers read before a pair is removed.
RECURSIVE remove_phi_entries_from(_, _, _, _)
remove_phi_entries_from(h, ops, k, pred) ==
    IF ~Ok(h) \/ k + 1 > Len(ops) THEN h
    ELSE remove_phi_entries_from(
             IF h.ops[ops[k + 1]].kind = "bb" /\ h.ops[ops[k + 1]].data = pred
             THEN remove_phi_operand_pair(h, ops[k])
             ELSE h,
             ops, k + 2, pred)

remove_phi_entries_for_predecessor(h, phi, pred) ==
    IF ~Ok(h) \/ phi = NULL \/ h.instrs[phi].opcode # "phi" \/ pred = NULL THEN h
    ELSE remove_phi_entries_from(h, h.instrs[phi].operands, 1, pred)

RECURSIVE remove_phi_entries_in(_, _, _)
remove_phi_entries_in(h, phis, pred) ==
    IF phis = <<>> THEN h
    ELSE remove_phi_entries_in(remove_phi_entries_for_predecessor(h, Head(phis), pred),
                               Tail(phis), pred)

remove_predecessor(h, block, pred_to_remove) ==
    IF ~Ok(h) \/ Count(h.bbs[block].predecessors, pred_to_remove) = 0 THEN h
    ELSE remove_phi_entries_in(
             [h EXCEPT !.bbs[block].predecessors = RemoveFirst(@, pred_to_remove)],
             BlockPhis(h, block), pred_to_remove)

remove_successor(h, block, succ_to_remove) ==
    IF ~Ok(h) THEN h
    ELSE [h EXCEPT !.bbs[block].successors = RemoveFirst(@, succ_to_remove)]

\* The array grows (to 4, then doubling) when the count has reached the capacity
\* field; the new entry is then written at index count.
grown_capacity(capacity) == IF capacity = 0 THEN 4 ELSE capacity * 2

grow_successors(h, block, new_capacity) ==
    [h EXCEPT !.bbs[block].capacity_successors = new_capacity,
              !.bbs[block].size_successors = new_capacity]

append_successor(h, block, new_succ) ==
    IF ~Ok(h) THEN h
    ELSE [h EXCEPT !.bbs[block].successors = Append(@, new_succ)]

write_successor(h, block, new_succ) ==
    append_successor(IF Len(h.bbs[block].successors) >= h.bbs[block].size_successors
                     THEN OutOfBounds(h) ELSE h,
                     block, new_succ)

add_successor(h, block, new_succ) ==
    IF ~Ok(h) THEN h
    ELSE write_successor(
             IF Len(h.bbs[block].successors) >= h.bbs[block].capacity_successors
             THEN grow_successors(IF h.bbs[block].parent = NULL THEN NullDeref(h) ELSE h,
                                  block, grown_capacity(h.bbs[block].capacity_successors))
             ELSE h,
             block, new_succ)

grow_predecessors(h, block, new_capacity) ==
    [h EXCEPT !.bbs[block].capacity_predecessors = new_capacity,
              !.bbs[block].size_predecessors = new_capacity]

append_predecessor(h, block, new_pred) ==
    IF ~Ok(h) THEN h
    ELSE [h EXCEPT !.bbs[block].predecessors = Append(@, new_pred)]

write_predecessor(h, block, new_pred) ==
    append_predecessor(IF Len(h.bbs[block].predecessors) >= h.bbs[block].size_predecessors
                       THEN OutOfBounds(h) ELSE h,
                       block, new_pred)

add_predecessor(h, block, new_pred) ==
    IF ~Ok(h) THEN h
    ELSE write_predecessor(
             IF Len(h.bbs[block].predecessors) >= h.bbs[block].capacity_predecessors
             THEN grow_predecessors(IF h.bbs[block].parent = NULL THEN NullDeref(h) ELSE h,
                                    block, grown_capacity(h.bbs[block].capacity_predecessors))
             ELSE h,
             block, new_pred)

RECURSIVE retarget_bb_operands(_, _, _, _)
retarget_bb_operands(h, ops, from, to) ==
    IF ops = <<>> THEN h
    ELSE retarget_bb_operands(
             IF h.ops[Head(ops)].kind = "bb" /\ h.ops[Head(ops)].data = from
             THEN [h EXCEPT !.ops[Head(ops)].data = to] ELSE h,
             Tail(ops), from, to)

retarget_terminator(h, term, from, to) ==
    IF ~Ok(h) THEN h ELSE retarget_bb_operands(h, h.instrs[term].operands, from, to)

change_terminator_target(h, term, from, to) ==
    IF ~Ok(h) THEN h
    ELSE retarget_terminator(IF is_terminator_instruction(h, term) THEN h ELSE AssertFails(h),
                             term, from, to)

redirect_edge(h, from, old_to, new_to) ==
    IF ~Ok(h) \/ from = NULL \/ old_to = NULL \/ new_to = NULL \/ from = old_to \/ from = new_to
    THEN h
    ELSE add_predecessor(
             remove_predecessor(
                 add_successor(
                     remove_successor(
                         IF is_terminator_instruction(h, h.bbs[from].tail)
                         THEN change_terminator_target(h, h.bbs[from].tail, old_to, new_to)
                         ELSE h,
                         from, old_to),
                     from, new_to),
                 old_to, from),
             new_to, from)

\* undef counts as a constant: it is never put in a use list.
as_constant(h, v) == [h EXCEPT !.vals[v].is_constant = TRUE]

get_undef_value(h) == as_constant(create_ir_value(h, "undef", 0), Len(h.vals) + 1)

RECURSIVE phi_incoming_from(_, _, _, _)
phi_incoming_from(h, ops, k, block) ==
    IF k + 1 > Len(ops) THEN NULL
    ELSE IF h.ops[ops[k + 1]].kind = "bb" /\ h.ops[ops[k + 1]].data = block
         THEN h.ops[ops[k]].data
         ELSE phi_incoming_from(h, ops, k + 2, block)

phi_get_incoming_value_for_block(h, phi, block) ==
    IF phi = NULL \/ h.instrs[phi].opcode # "phi" \/ block = NULL THEN NULL
    ELSE phi_incoming_from(h, h.instrs[phi].operands, 1, block)

\* Whether one of the (value, block) pairs of the PHI has the block `from`.
phi_has_from(h, phi, from) ==
    LET ops == h.instrs[phi].operands IN
    \E k \in 1..Len(ops) : k % 2 = 1 /\ k + 1 <= Len(ops) /\ h.ops[ops[k + 1]].data = from

\* The PHI of old_to that stands for the same alloca as phi_new, if any.
matching_phi(h, phi_new, old_to) ==
    LET same == SelectSeq(BlockPhis(h, old_to),
                          LAMBDA p : h.instrs[p].phi_for_alloca = h.instrs[phi_new].phi_for_alloca)
    IN IF h.instrs[phi_new].phi_for_alloca # NULL /\ same # <<>> THEN Head(same) ELSE NULL

\* add_value_operand(phi_new, incoming_val); add_bb_operand(phi_new, from);
add_incoming_pair(h, phi, incoming_val, from) ==
    add_bb_operand(add_value_operand(h, phi, incoming_val), phi, from)

\* found is the value the matching PHI of old_to has for `from`; without one the
\* pair gets a fresh undef of the type of phi_new->dest.
repair_phi_with(h, phi_new, from, found) ==
    add_incoming_pair(
        IF found # NULL THEN h
        ELSE get_undef_value(IF h.instrs[phi_new].dest = NULL THEN NullDeref(h) ELSE h),
        phi_new,
        IF found # NULL THEN found ELSE Len(h.vals) + 1,
        from)

repair_phi(h, phi_new, from, old_to) ==
    IF ~Ok(h) \/ phi_has_from(h, phi_new, from) THEN h
    ELSE repair_phi_with(h, phi_new, from,
             phi_get_incoming_value_for_block(h, matching_phi(h, phi_new, old_to), from))

RECURSIVE repair_phis(_, _, _, _)
repair_phis(h, phis, from, old_to) ==
    IF phis = <<>> THEN h
    ELSE repair_phis(repair_phi(h, Head(phis), from, old_to), Tail(phis), from, old_to)

\* The second loop: the PHIs of old_to lose their entries for `from`.
drop_phi_entries(h, block, pred) ==
    IF ~Ok(h) THEN h ELSE remove_phi_entries_in(h, BlockPhis(h, block), pred)

repair_phi_nodes_after_edge_redirect(h, new_to, from, old_to) ==
    IF ~Ok(h) \/ new_to = NULL \/ from = NULL \/ old_to = NULL THEN h
    ELSE drop_phi_entries(
             repair_phis(IF h.bbs[new_to].parent = NULL THEN NullDeref(h) ELSE h,
                         BlockPhis(h, new_to), from, old_to),
             old_to, from)

replace_all_uses_with_block(h, from, to) ==
    IF ~Ok(h) \/ from = NULL \/ to = NULL \/ from = to THEN h
    ELSE IF h.bbs[from].parent = NULL THEN NullDeref(h)        \* func->blocks of a NULL func
    ELSE LET linked == LinkedOps(h) IN
         [h EXCEPT !.ops = [o \in DOMAIN h.ops |->
                               IF o \in linked /\ h.ops[o].kind = "bb" /\ h.ops[o].data = from
                               THEN [h.ops[o] EXCEPT !.data = to] ELSE h.ops[o]]]

\* if (bb->prev_in_func) ... else func->blocks = next; if (bb->next_in_func) ...
\* else func->tail = prev;
set_next_or_first_block(h, b, next) ==
    IF b # NULL THEN [h EXCEPT !.bbs[b].next_in_func = next] ELSE [h EXCEPT !.func.blocks = next]

set_prev_or_last_block(h, b, prev) ==
    IF b # NULL THEN [h EXCEPT !.bbs[b].prev_in_func = prev] ELSE [h EXCEPT !.func.tail = prev]

unlink_block(h, prev, next) ==
    set_prev_or_last_block(set_next_or_first_block(h, prev, next), next, prev)

remove_block_from_function(h, bb) ==
    IF ~Ok(h) \/ bb = NULL \/ h.bbs[bb].parent = NULL THEN h
    ELSE [unlink_block(h, h.bbs[bb].prev_in_func, h.bbs[bb].next_in_func)
             EXCEPT !.bbs[bb].parent = NULL, !.func.block_count = @ - 1]

RECURSIVE set_parents(_, _, _)
set_parents(h, instrs, to) ==
    IF instrs = <<>> THEN h
    ELSE set_parents([h EXCEPT !.instrs[Head(instrs)].parent = to], Tail(instrs), to)

\* The list of `from` is spliced behind to->tail. With to->head set and to->tail
\* NULL the splice writes through a NULL pointer.
splice_instructions(h, from, to) ==
    IF h.bbs[to].head = NULL
    THEN [h EXCEPT !.bbs[to].head = h.bbs[from].head, !.bbs[to].tail = h.bbs[from].tail]
    ELSE IF h.bbs[to].tail = NULL
    THEN [NullDeref(h) EXCEPT !.instrs[h.bbs[from].head].prev = NULL,
                              !.bbs[to].tail = h.bbs[from].tail]
    ELSE [h EXCEPT !.instrs[h.bbs[to].tail].next = h.bbs[from].head,
                   !.instrs[h.bbs[from].head].prev = h.bbs[to].tail,
                   !.bbs[to].tail = h.bbs[from].tail]

\* The moved instructions get their new parent and `from` is left empty.
adopt_instructions(h, moved, from, to) ==
    IF ~Ok(h) THEN h
    ELSE [set_parents(h, moved, to) EXCEPT !.bbs[from].head = NULL,
                                           !.bbs[from].tail = NULL]

move_instructions_to_block_end(h, from, to) ==
    IF ~Ok(h) \/ from = NULL \/ to = NULL \/ from = to \/ h.bbs[from].head = NULL THEN h
    ELSE adopt_instructions(splice_instructions(h, from, to), BlockInstrs(h, from), from, to)

----------------------------------------------------------------------------
(* SimplifyCFG (simplify_cfg.c) *)

\* A bound on the restarts of a loop whose end is not evident; reaching it is
\* reported as status "fuel", apart from a loop that is seen to repeat ("hang").
Fuel(h) == 2 * (Len(h.bbs) + Len(h.instrs)) + 4

RECURSIVE Reverse(_)
Reverse(s) == IF s = <<>> THEN <<>> ELSE Append(Reverse(Tail(s)), Head(s))

\* The worklist of all blocks: filled in list order, popped from the end.
Top(worklist) == worklist[Len(worklist)]
Pop(worklist) == SubSeq(worklist, 1, Len(worklist) - 1)

\* r = [h, changed, local]: the heap, ctx->changed_this_iteration, and the
\* changed_locally / needs_restart flag of the sub-pass.
Changed(h) == [h |-> h, changed |-> TRUE, local |-> TRUE]

erase_terminator(h, bb) == IF ~Ok(h) THEN h ELSE erase_instruction(h, h.bbs[bb].tail)

\* The conditional branch of bb on a constant becomes a br to kept_dest.
fold_constant_branch(h, bb, kept_dest, dead_dest) ==
    ir_builder_create_br(
        ir_builder_set_insertion_block_end(
            erase_terminator(
                remove_successor(remove_predecessor(h, dead_dest, bb), bb, dead_dest),
                bb),
            bb),
        kept_dest)

RECURSIVE constant_branches_loop(_, _)
constant_branches_loop(r, worklist) ==
    IF ~Ok(r.h) \/ worklist = <<>> THEN r
    ELSE LET h == r.h
             bb == Top(worklist)
             tail == h.bbs[bb].tail
         IN IF tail = NULL \/ h.instrs[tail].opcode # "br" \/ Len(h.instrs[tail].operands) <= 1
            THEN constant_branches_loop(r, Pop(worklist))
            ELSE IF h.ops[h.instrs[tail].operands[1]].kind # "value"
                    \/ ~h.vals[OperandData(h, tail, 1)].is_constant
            THEN constant_branches_loop(r, Pop(worklist))
            ELSE constant_branches_loop(
                     Changed(IF Len(h.instrs[tail].operands) < 3 THEN NullDeref(h)
                             ELSE IF h.vals[OperandData(h, tail, 1)].int_val # 0
                             THEN fold_constant_branch(h, bb, OperandData(h, tail, 2),
                                                       OperandData(h, tail, 3))
                             ELSE fold_constant_branch(h, bb, OperandData(h, tail, 3),
                                                       OperandData(h, tail, 2))),
                     Pop(worklist))

simplify_constant_branches(r) ==
    constant_branches_loop([r EXCEPT !.local = FALSE], FuncBlocks(r.h))

\* A block that holds one unconditional br and nothing else.
is_trampoline(h, b) ==
    LET head == h.bbs[b].head IN
    /\ head = h.bbs[b].tail
    /\ head # NULL
    /\ h.instrs[head].opcode = "br"
    /\ Len(h.instrs[head].operands) = 1

can_thread(h, bb_b, bb_c) ==
    \A i \in 1..Len(h.bbs[bb_b].predecessors) :
        \A phi \in Range(BlockPhis(h, bb_c)) :
            \/ phi_get_incoming_value_for_block(h, phi, bb_b) # NULL
            \/ phi_get_incoming_value_for_block(h, phi, h.bbs[bb_b].predecessors[i]) # NULL

\* while (bb_b->num_predecessors > 0): redirect the first predecessor. A round that
\* changes nothing leaves the count as it was, for ever.
RECURSIVE thread_predecessors(_, _, _, _)
thread_next(h, h1, bb_b, bb_c, fuel) ==
    IF h1 = h THEN Stop(h, "hang")
    ELSE IF fuel = 0 THEN Stop(h, "fuel")
    ELSE thread_predecessors(h1, bb_b, bb_c, fuel - 1)

thread_predecessor(h, pred_a, bb_b, bb_c) ==
    repair_phi_nodes_after_edge_redirect(redirect_edge(h, pred_a, bb_b, bb_c),
                                         bb_c, pred_a, bb_b)

thread_predecessors(h, bb_b, bb_c, fuel) ==
    IF ~Ok(h) \/ h.bbs[bb_b].predecessors = <<>> THEN h
    ELSE thread_next(h, thread_predecessor(h, Head(h.bbs[bb_b].predecessors), bb_b, bb_c),
                     bb_b, bb_c, fuel)

RECURSIVE thread_jumps_scan(_, _)
thread_jumps_scan(r, worklist) ==
    IF ~Ok(r.h) \/ worklist = <<>> THEN [r EXCEPT !.local = FALSE]
    ELSE LET h == r.h
             bb_b == Top(worklist)
             bb_c == OperandData(h, h.bbs[bb_b].head, 1)
         IN IF ~is_trampoline(h, bb_b) THEN thread_jumps_scan(r, Pop(worklist))
            ELSE IF bb_b = h.func.entry \/ h.bbs[bb_b].predecessors = <<>>
            THEN thread_jumps_scan(r, Pop(worklist))
            ELSE IF bb_c = bb_b \/ ~can_thread(h, bb_b, bb_c)
            THEN thread_jumps_scan(r, Pop(worklist))
            ELSE Changed(thread_predecessors(h, bb_b, bb_c, Fuel(h)))

\* changed_locally restarts the scan with a new worklist of all blocks.
RECURSIVE thread_jumps_restart(_, _)
thread_jumps_again(r1, fuel) ==
    IF ~r1.local THEN r1
    ELSE IF fuel = 0 THEN [r1 EXCEPT !.h = Stop(r1.h, "fuel")]
    ELSE thread_jumps_restart(r1, fuel - 1)

thread_jumps_restart(r, fuel) ==
    IF ~Ok(r.h) THEN r
    ELSE thread_jumps_again(thread_jumps_scan(r, FuncBlocks(r.h)), fuel)

thread_jumps(r) == thread_jumps_restart(r, Fuel(r.h))

\* B is merged into A: A's terminator is erased, B's instructions are moved behind
\* A's, B is unlinked. A's successor list and B's predecessor list stay as they are.
clear_tail(h, bb) == IF Ok(h) THEN [h EXCEPT !.bbs[bb].tail = NULL] ELSE h

move_body(h, bb_b, bb_a) ==
    IF Ok(h) /\ h.bbs[bb_b].head # NULL
    THEN move_instructions_to_block_end(h, bb_b, bb_a) ELSE h

merge_blocks(h, bb_a, bb_b) ==
    remove_block_from_function(
        replace_all_uses_with_block(
            move_body(clear_tail(erase_instruction(h, h.bbs[bb_a].tail), bb_a), bb_b, bb_a),
            bb_b, bb_a),
        bb_b)

RECURSIVE merge_scan(_, _)
merge_scan(r, worklist) ==
    IF ~Ok(r.h) \/ worklist = <<>> THEN [r EXCEPT !.local = FALSE]
    ELSE LET h == r.h
             bb_a == Top(worklist)
             tail == h.bbs[bb_a].tail
             bb_b == h.bbs[bb_a].successors[1]
         IN IF tail = NULL \/ h.instrs[tail].opcode # "br" \/ Len(h.bbs[bb_a].successors) # 1
            THEN merge_scan(r, Pop(worklist))
            ELSE IF bb_b = h.func.entry \/ Len(h.bbs[bb_b].predecessors) # 1
            THEN merge_scan(r, Pop(worklist))
            ELSE IF h.bbs[bb_b].head # NULL /\ h.instrs[h.bbs[bb_b].head].opcode = "phi"
            THEN merge_scan(r, Pop(worklist))
            ELSE Changed(merge_blocks(h, bb_a, bb_b))

\* changed_locally restarts the scan. A scan that merges and leaves the heap as it
\* found it is followed by the same scan for ever.
RECURSIVE merge_restart(_, _)
merge_again(r, r1, fuel) ==
    IF ~r1.local THEN r1
    ELSE IF r1.h = r.h THEN [r1 EXCEPT !.h = Stop(r1.h, "hang")]
    ELSE IF fuel = 0 THEN [r1 EXCEPT !.h = Stop(r1.h, "fuel")]
    ELSE merge_restart(r1, fuel - 1)

merge_restart(r, fuel) ==
    IF ~Ok(r.h) THEN r
    ELSE merge_again(r, merge_scan(r, FuncBlocks(r.h)), fuel)

merge_sequential_blocks(r) == merge_restart(r, Fuel(r.h))

\* The forward walk from the entry; a block counts as seen by its post_order_id.
\* m = [reach, stack].
RECURSIVE mark_successors(_, _, _, _)
mark_successors(h, m, bb, i) ==
    IF i > Len(h.bbs[bb].successors) THEN m
    ELSE LET succ == h.bbs[bb].successors[i]
             id == h.bbs[succ].post_order_id
         IN mark_successors(h,
                IF id \in m.reach THEN m
                ELSE [reach |-> m.reach \cup {id}, stack |-> Append(m.stack, succ)],
                bb, i + 1)

RECURSIVE mark_reachable(_, _)
mark_reachable(h, m) ==
    IF m.stack = <<>> THEN m.reach
    ELSE mark_reachable(h, mark_successors(h, [m EXCEPT !.stack = Pop(@)], Top(m.stack), 1))

RECURSIVE sweep_unreachable(_, _, _)
sweep_unreachable(r, reach, blocks) ==
    IF ~Ok(r.h) \/ blocks = <<>> THEN r
    ELSE LET bb == Top(blocks) IN
         IF bb # r.h.func.entry /\ r.h.bbs[bb].post_order_id \notin reach
         THEN sweep_unreachable(Changed(remove_block_from_function(r.h, bb)), reach, Pop(blocks))
         ELSE sweep_unreachable(r, reach, Pop(blocks))

remove_unreachable_blocks(r) ==
    IF ~Ok(r.h) \/ r.h.func.entry = NULL THEN r
    ELSE sweep_unreachable([r EXCEPT !.local = FALSE],
                           mark_reachable(r.h, [reach |-> {r.h.bbs[r.h.func.entry].post_order_id},
                                                stack |-> <<r.h.func.entry>>]),
                           FuncBlocks(r.h))

\* build_cfg(func); compute_dominators(func); when the step before asks for it.
rebuild_analyses(r) ==
    IF r.local THEN [r EXCEPT !.h = compute_dominators(build_cfg(r.h))] ELSE r

\* One round of the fixpoint loop: the analyses, the four sub-passes in their
\* order, the analyses again after a constant branch was folded.
simplify_cfg_round(h) ==
    remove_unreachable_blocks(
        merge_sequential_blocks(
            thread_jumps(
                rebuild_analyses(
                    simplify_constant_branches(
                        [rebuild_analyses([h |-> h, changed |-> FALSE, local |-> TRUE])
                            EXCEPT !.local = FALSE])))))

\* The loop. A round that reports a change and leaves the heap as it found it is
\* followed by the same round for ever.
RECURSIVE simplify_cfg_rounds(_, _)
simplify_cfg_next(h, r, fuel) ==
    IF ~Ok(r.h) \/ ~r.changed THEN r.h
    ELSE IF r.h = h THEN Stop(h, "hang")
    ELSE IF fuel = 0 THEN Stop(r.h, "fuel")
    ELSE simplify_cfg_rounds(r.h, fuel - 1)

simplify_cfg_rounds(h, fuel) ==
    IF ~Ok(h) THEN h
    ELSE simplify_cfg_next(h, simplify_cfg_round(h), fuel)

run_simplify_cfg(h) ==
    IF ~Ok(h) \/ h.func.entry = NULL THEN h
    ELSE simplify_cfg_rounds(ir_builder_init(h), Fuel(h))

----------------------------------------------------------------------------
(* The use-def machine: a client of the builder and of the use-def mutators *)

\* Instructions the use-def machine holds at most (one is there at the start).
MaxInstrs == 2

\* Calls the client makes at most.
MaxCalls == 3

\* The process is alive and the client has calls left.
Running == Ok(ir) /\ last.n < MaxCalls

NoExec == [state |-> "idle"]

\* Values 1 and 2: an argument and a constant; block 1 holds one add.
Init ==
    /\ build \in Builds
    /\ \E lhs \in 1..2, rhs \in 1..2 :
         LET h0 == create_ir_value(function_skeleton(1, 1), "const", 1)
         IN ir = ir_builder_init(emit(h0, 1, "add", TRUE, <<V(lhs), V(rhs)>>))
    /\ last = [n |-> 0, op |-> "init"]
    /\ exec = NoExec

ValueOps(h) == {o \in LinkedOps(h) : h.ops[o].kind = "value"}

SetInsertionPoint ==
    /\ Running
    /\ \E i \in LinkedInstrs(ir) :
         /\ ir.builder.insert_point # i
         /\ ir' = ir_builder_set_insertion_point(ir, i)
    /\ last' = [n |-> last.n + 1, op |->"ir_builder_set_insertion_point"]
    /\ UNCHANGED <<build, exec>>

SetInsertionBlockEnd ==
    /\ Running
    /\ ir.builder.insert_point # NULL
    /\ ir' = ir_builder_set_insertion_block_end(ir, ir.func.entry)
    /\ last' = [n |-> last.n + 1, op |->"ir_builder_set_insertion_block_end"]
    /\ UNCHANGED <<build, exec>>

CreateBinaryOp ==
    /\ Running
    /\ Len(ir.instrs) < MaxInstrs
    /\ \E lhs \in 1..Len(ir.vals), rhs \in 1..Len(ir.vals) :
         /\ ir' = create_binary_op(ir, "add", lhs, rhs)
         /\ last' = [n |-> last.n + 1, op |->"create_binary_op", lhs |-> lhs, rhs |-> rhs,
                     bb |-> ir.builder.current_bb, ip |-> ir.builder.insert_point,
                     ret |-> Len(ir.instrs) + 1]
    /\ UNCHANGED <<build, exec>>

ChangeOperandValue ==
    /\ Running
    /\ \E op \in ValueOps(ir), v \in 1..Len(ir.vals) :
         /\ ir' = change_operand_value(ir, op, v)
         /\ last' = [n |-> last.n + 1, op |->"change_operand_value"]
    /\ UNCHANGED <<build, exec>>

ReplaceAllUsesWith ==
    /\ Running
    /\ \E old \in 1..Len(ir.vals), new \in 1..Len(ir.vals) :
         /\ ir' = replace_all_uses_with(ir, FALSE, old, new)
         /\ last' = [n |-> last.n + 1, op |->"replace_all_uses_with", old |-> old, new |-> new,
                     had_uses |-> ir.vals[old].use_list_head # NULL,
                     uses |-> {o \in ValueOps(ir) : ir.ops[o].data = old}]
    /\ UNCHANGED <<build, exec>>

RemoveOperand ==
    /\ Running
    /\ \E op \in LinkedOps(ir) :
         /\ ir' = remove_operand(ir, op)
         /\ last' = [n |-> last.n + 1, op |->"remove_operand"]
    /\ UNCHANGED <<build, exec>>

\* The client keeps erase_instruction's precondition: the result has no uses.
EraseInstruction ==
    /\ Running
    /\ \E i \in LinkedInstrs(ir) :
         /\ ir.instrs[i].dest # NULL => ir.vals[ir.instrs[i].dest].use_list_head = NULL
         /\ ir' = erase_instruction(ir, i)
         /\ last' = [n |-> last.n + 1, op |->"erase_instruction"]
    /\ UNCHANGED <<build, exec>>

Next ==
    \/ SetInsertionPoint
    \/ SetInsertionBlockEnd
    \/ CreateBinaryOp
    \/ ChangeOperandValue
    \/ ReplaceAllUsesWith
    \/ RemoveOperand
    \/ EraseInstruction

Spec == Init /\ [][Next]_vars

\* Registers: the values that instructions define.
Registers(h) == {v \in 1..Len(h.vals) : h.vals[v].cls = "reg"}

UseDefConsistent(h) ==
    \A v \in Registers(h) :
       /\ \A o \in ValueOps(h) : (h.ops[o].data = v) <=> (o \in Range(UseList(h, v)))
       /\ \A o \in Range(UseList(h, v)) : Count(UseList(h, v), o) = 1

\* C2: a builder factory called with a valid cursor completes and returns a new
\* instruction that is linked into the cursor's block at the cursor (before the
\* insertion point, or last when there is none), whose operands are the given
\* ones in order, each non-constant one entered in its value's use list.
C2_FactoryLinksAndWires ==
    last.op = "create_binary_op" =>
        /\ Ok(ir)
        /\ LET i == last.ret IN
           /\ i \in Range(BlockInstrs(ir, last.bb))
           /\ ir.instrs[i].parent = last.bb
           /\ ir.instrs[i].next = last.ip
           /\ [k \in 1..Len(ir.instrs[i].operands) |-> ir.ops[ir.instrs[i].operands[k]].data]
                 = <<last.lhs, last.rhs>>
           /\ \A k \in 1..Len(ir.instrs[i].operands) :
                LET o == ir.instrs[i].operands[k] IN
                ~ir.vals[ir.ops[o].data].is_constant
                    => o \in Range(UseList(ir, ir.ops[o].data))

\* C4: replace_all_uses_with(old, new), for a non-constant old with a non-empty
\* use list and new different from old, terminates, leaves old's use list empty
\* and leaves every operand that referenced old referencing new.
C4_RauwTerminatesAndRetargets ==
    (/\ last.op = "replace_all_uses_with"
     /\ ~ir.vals[last.old].is_constant
     /\ last.had_uses
     /\ last.old # last.new)
        => /\ Ok(ir)
           /\ ir.vals[last.old].use_list_head = NULL
           /\ \A o \in last.uses : ir.ops[o].data = last.new

\* The same for an old that an instruction defines (def_instr set).
C4_RauwOfDefinedRegister ==
    (/\ last.op = "replace_all_uses_with"
     /\ ir.vals[last.old].def_instr # NULL
     /\ last.had_uses
     /\ last.old # last.new)
        => /\ Ok(ir)
           /\ ir.vals[last.old].use_list_head = NULL
           /\ \A o \in last.uses : ir.ops[o].data = last.new

----------------------------------------------------------------------------
(* Functions given by their control flow: block b ends with terms[b] *)

Terminators(n) ==
    {<<"ret">>} \cup {<<"br", t>> : t \in 1..n}
                \cup {<<"condbr", t1, t2>> : t1 \in 1..n, t2 \in 1..n}

\* The terminator of a block: ret void, br label, or br cond, label, label.
with_terminator(h, b, term, cond) ==
    IF ~Ok(h) THEN h
    ELSE IF term[1] = "ret" THEN emit(h, b, "ret", FALSE, <<>>)
    ELSE IF term[1] = "br" THEN emit(h, b, "br", FALSE, <<B(term[2])>>)
    ELSE emit(h, b, "br", FALSE, <<V(cond), B(term[2]), B(term[3])>>)

RECURSIVE with_terminators(_, _, _, _)
with_terminators(h, terms, b, cond) ==
    IF ~Ok(h) \/ b > Len(terms) THEN h
    ELSE with_terminators(with_terminator(h, b, terms[b], cond), terms, b + 1, cond)

\* One argument (value 1), used as the condition of every conditional branch.
cfg_function(terms) == with_terminators(function_skeleton(1, Len(terms)), terms, 1, 1)

RECURSIVE with_old_lists(_, _, _)
with_old_lists(h, b, old) ==
    IF b = 0 THEN h
    ELSE with_old_lists([h EXCEPT !.bbs[b].successors = old, !.bbs[b].predecessors = old],
                        b - 1, old)

----------------------------------------------------------------------------
(* build_cfg on every function of CFGBlocks blocks *)

CFGBlocks == 2

\* Successor and predecessor lists left by earlier edits of the function.
OldLists == {<<>>, <<1>>, <<2, 1, 2>>}

\* The module before any function body is generated.
InitCFG ==
    /\ build \in Builds
    /\ ir = EmptyHeap
    /\ last = [n |-> 0, op |-> "init", old |-> <<>>]
    /\ exec = NoExec

\* The IR generator and earlier passes leave a function of CFGBlocks blocks with
\* some successor and predecessor lists.
GenerateCFG ==
    /\ last.op = "init"
    /\ \E terms \in [1..CFGBlocks -> Terminators(CFGBlocks)], old \in OldLists :
         /\ ir' = with_old_lists(cfg_function(terms), CFGBlocks, old)
         /\ last' = [n |-> 1, op |-> "generate", old |-> old]
    /\ UNCHANGED <<build, exec>>

BuildCfg ==
    /\ Ok(ir)
    /\ last.op = "generate"
    /\ ir' = build_cfg(ir)
    /\ last' = [n |-> 2, op |-> "build_cfg", old |-> last.old]
    /\ UNCHANGED <<build, exec>>

NextCFG == GenerateCFG \/ BuildCfg

SpecCFG == InitCFG /\ [][NextCFG]_vars

Succ(h, b) == h.bbs[b].successors
Pred(h, b) == h.bbs[b].predecessors

\* C9: after build_cfg, b is in succ(a) as often as a is in pred(b), and a block has
\* 0 successors if it ends in ret, 1 if in an unconditional br, 2 if in a conditional
\* br, whatever lists were there before.
C9_BuildCfgConsistent ==
    last.op = "build_cfg" =>
        /\ Ok(ir)
        /\ \A a \in Range(FuncBlocks(ir)), b \in Range(FuncBlocks(ir)) :
               Count(Succ(ir, a), b) = Count(Pred(ir, b), a)
        /\ \A a \in Range(FuncBlocks(ir)) :
               LET term == ir.instrs[ir.bbs[a].tail] IN
               Len(Succ(ir, a)) = IF term.opcode = "ret" THEN 0
                                  ELSE IF Len(term.operands) = 1 THEN 1 ELSE 2

\* A conditional branch with both targets the same block, built over old lists.
C9_Witness ==
    /\ last.op = "build_cfg"
    /\ last.old # <<>>
    /\ \E a \in Range(FuncBlocks(ir)), b \in Range(FuncBlocks(ir)) :
          /\ a # b
          /\ Succ(ir, a) = <<b, b>>
          /\ Count(Pred(ir, b), a) = 2

----------------------------------------------------------------------------
(* build_cfg, then compute_dominators, on every function of DomBlocks blocks *)

DomBlocks == 3

InitDom == InitCFG

\* The IR generator leaves a function of DomBlocks blocks.
GenerateDom ==
    /\ last.op = "init"
    /\ \E terms \in [1..DomBlocks -> Terminators(DomBlocks)] :
         ir' = cfg_function(terms)
    /\ last' = [n |-> 1, op |-> "generate", old |-> <<>>]
    /\ UNCHANGED <<build, exec>>

ComputeDominators ==
    /\ Ok(ir)
    /\ last.op = "build_cfg"
    /\ ir' = compute_dominators(ir)
    /\ last' = [n |-> 3, op |-> "compute_dominators", old |-> last.old]
    /\ UNCHANGED <<build, exec>>

NextDom == GenerateDom \/ BuildCfg \/ ComputeDominators

SpecDom == InitDom /\ [][NextDom]_vars

\* The blocks that a path from `from` reaches without entering block `without`.
RECURSIVE ReachableAvoiding(_, _, _)
ReachableAvoiding(h, seen, without) ==
    LET more == {s \in UNION {Range(Succ(h, b)) : b \in seen} : s # without} \ seen IN
    IF more = {} THEN seen ELSE ReachableAvoiding(h, seen \cup more, without)

Reachable(h) == ReachableAvoiding(h, {h.func.entry}, NULL)

\* Every path from the entry to b passes through a.
Dominates(h, a, b) ==
    \/ a = b
    \/ a = h.func.entry
    \/ b \notin ReachableAvoiding(h, {h.func.entry}, a)

\* C10: after compute_dominators, for reachable blocks a and b, the timestamp query
\* dominates(a, b) is true exactly when every path from the entry to b passes
\* through a.
C10_DominatesIsDominance ==
    (last.op = "compute_dominators" /\ Ok(ir)) =>
        \A a \in Reachable(ir), b \in Reachable(ir) :
            dominates(ir, a, b) <=> Dominates(ir, a, b)

\* One direction holds where every block is reachable: a true answer of the query
\* is a true dominance.
DominatesQueryIsSound ==
    (last.op = "compute_dominators" /\ Ok(ir)
        /\ Reachable(ir) = Range(FuncBlocks(ir))) =>
        \A a \in Reachable(ir), b \in Reachable(ir) :
            dominates(ir, a, b) => Dominates(ir, a, b)

\* C19: after compute_dominators, for every reachable block b other than the entry,
\* idom(b) is the closest strict dominator of b: it strictly dominates b, and every
\* other strict dominator of b dominates idom(b).
C19_IdomIsClosestStrictDominator ==
    (last.op = "compute_dominators" /\ Ok(ir)) =>
        \A b \in Reachable(ir) \ {ir.func.entry} :
            /\ ir.bbs[b].idom # NULL
            /\ ir.bbs[b].idom # b
            /\ Dominates(ir, ir.bbs[b].idom, b)
            /\ \A a \in Reachable(ir) \ {b} :
                   Dominates(ir, a, b) => Dominates(ir, a, ir.bbs[b].idom)

----------------------------------------------------------------------------
(* run_simplify_cfg on functions of SCFGBlocks blocks *)

SCFGBlocks == 3

\* The blocks whose terminator names b, in block order, once for each time it
\* names b: the predecessors of b as build_cfg lists them.
RECURSIVE TermPredsFrom(_, _, _)
TermPredsFrom(terms, b, p) ==
    IF p > Len(terms) THEN <<>>
    ELSE [k \in 1..Count(Tail(terms[p]), b) |-> p] \o TermPredsFrom(terms, b, p + 1)

TermPreds(terms, b) == TermPredsFrom(terms, b, 1)

RECURSIVE phi_pairs(_, _)
phi_pairs(preds, val) ==
    IF preds = <<>> THEN <<>>
    ELSE <<V(val), B(Head(preds))>> \o phi_pairs(Tail(preds), val)

\* The terminators that do not branch to block 1: the IR generator never
\* branches to the entry block it creates.
BodyTerminators(n) == {t \in Terminators(n) : \A k \in 2..Len(t) : t[k] # 1}

\* Block b: a PHI with one (value, block) pair per predecessor if b is among phis
\* and has predecessors, an add if b is among body, the terminator.
RECURSIVE with_block_bodies(_, _, _, _, _, _)
with_block_bodies(h, terms, b, cond, phis, body) ==
    IF ~Ok(h) \/ b > Len(terms) THEN h
    ELSE with_block_bodies(
             with_terminator(
                 IF b \in body
                 THEN emit(IF b \in phis /\ TermPreds(terms, b) # <<>>
                           THEN emit(h, b, "phi", TRUE, phi_pairs(TermPreds(terms, b), 1))
                           ELSE h,
                           b, "add", TRUE, <<V(1), V(1)>>)
                 ELSE IF b \in phis /\ TermPreds(terms, b) # <<>>
                 THEN emit(h, b, "phi", TRUE, phi_pairs(TermPreds(terms, b), 1))
                 ELSE h,
                 b, terms[b], cond),
             terms, b + 1, cond, phis, body)

\* Value 1 is the argument, value 2 the constant 1, value 3 the constant 0; cond
\* is one of them.
scfg_function(terms, cond, phis, body) ==
    with_block_bodies(
        create_ir_value(create_ir_value(function_skeleton(1, Len(terms)), "const", 1),
                        "const", 0),
        terms, 1, cond, phis, body)

\* The module before any function body is generated.
InitSCFG ==
    /\ build \in Builds
    /\ ir = EmptyHeap
    /\ last = [n |-> 0, op |-> "init", before |-> EmptyHeap]
    /\ exec = NoExec

\* The IR generator leaves a function of SCFGBlocks blocks: any of the blocks
\* after the entry starts with a PHI; no block, the entry or every block has an
\* add before its terminator.
GenerateSCFG ==
    /\ last.op = "init"
    /\ \E terms \in [1..SCFGBlocks -> BodyTerminators(SCFGBlocks)], cond \in 1..3,
          phis \in SUBSET (2..SCFGBlocks), body \in {{}, {1}, 1..SCFGBlocks} :
         /\ ir' = scfg_function(terms, cond, phis, body)
         /\ last' = [n |-> 1, op |-> "generate", before |-> ir']
    /\ UNCHANGED <<build, exec>>

RunSimplifyCfg ==
    /\ Ok(ir)
    /\ last.op = "generate"
    /\ ir' = run_simplify_cfg(ir)
    /\ last' = [last EXCEPT !.n = 2, !.op = "run_simplify_cfg"]
    /\ UNCHANGED <<build, exec>>

NextSCFG == GenerateSCFG \/ RunSimplifyCfg

SpecSCFG == InitSCFG /\ [][NextSCFG]_vars

\* The rounds of the fixpoint loop never outnumber the blocks and instructions
\* there are to remove.
NoFuelStop == ir.status # "fuel"

\* Block b, if it has instructions, ends with a terminator and holds no other.
TerminatedBlock(h, b) ==
    LET instrs == BlockInstrs(h, b) IN
    instrs # <<>> =>
        /\ is_terminator_instruction(h, instrs[Len(instrs)])
        /\ h.bbs[b].tail = instrs[Len(instrs)]
        /\ \A k \in 1..(Len(instrs) - 1) : ~is_terminator_instruction(h, instrs[k])

\* Every reachable block of the function is a TerminatedBlock.
WellTerminated(h) ==
    \A b \in Reachable(h) \cap Range(FuncBlocks(h)) : TerminatedBlock(h, b)

\* The predecessor blocks a PHI names, in operand order.
PhiBlocks(h, phi) ==
    LET ops == h.instrs[phi].operands IN
    [k \in 1..(Len(ops) \div 2) |-> h.ops[ops[2 * k]].data]

SameBag(s, t) == \A x \in Range(s) \cup Range(t) : Count(s, x) = Count(t, x)

\* Every PHI of every block of the function names the predecessors of its block,
\* each as often as it is a predecessor.
PhisMatchPreds(h) ==
    \A b \in Range(FuncBlocks(h)) :
        \A phi \in Range(BlockPhis(h, b)) :
            /\ Len(h.instrs[phi].operands) % 2 = 0
            /\ SameBag(PhiBlocks(h, phi), Pred(h, b))

C8_SimplifyCfgKeepsPhis ==
    (last.op = "run_simplify_cfg" /\ Ok(ir) /\ PhisMatchPreds(build_cfg(last.before)))
        => PhisMatchPreds(ir)

\* C14: run_simplify_cfg returns on every function, a function with a block B that
\* holds only `br C` while C is a predecessor of B included: no loop of the pass
\* goes on for ever.
C14_SimplifyCfgTerminates ==
    last.op = "run_simplify_cfg" => ir.status # "hang"

----------------------------------------------------------------------------
(* Tail call elimination (tail_call_elim.c) *)

is_tail_call_pattern(h, call_instr, ret_instr) ==
    /\ call_instr # NULL
    /\ ret_instr # NULL
    /\ h.instrs[call_instr].opcode = "call"
    /\ h.instrs[ret_instr].opcode = "ret"
    /\ h.instrs[call_instr].next = ret_instr
    /\ IF Len(h.instrs[ret_instr].operands) = 1
       THEN OperandData(h, ret_instr, 1) = h.instrs[call_instr].dest
       ELSE h.instrs[call_instr].dest = NULL

\* strcmp(callee_val->name, func->name) == 0: of the values of a function, the
\* one of class "self" carries the name of the function.
is_direct_recursive_call(h, call_instr) ==
    /\ call_instr # NULL
    /\ h.instrs[call_instr].opcode = "call"
    /\ h.instrs[call_instr].operands # <<>>
    /\ h.vals[OperandData(h, call_instr, 1)].cls = "self"

\* A ValueMap is kept as the sequence of its <<old_val, new_val>> entries.
value_map_put(h, map, old_val, new_val) ==
    IF old_val = NULL \/ h.vals[old_val].is_constant THEN map
    ELSE IF \E k \in 1..Len(map) : map[k][1] = old_val
    THEN [k \in 1..Len(map) |-> IF map[k][1] = old_val THEN <<old_val, new_val>> ELSE map[k]]
    ELSE Append(map, <<old_val, new_val>>)

value_map_get(map, old_val) ==
    IF old_val = NULL \/ \A k \in 1..Len(map) : map[k][1] # old_val THEN NULL
    ELSE map[CHOOSE k \in 1..Len(map) : map[k][1] = old_val][2]

\* t = [h, arg_remap]: the heap and the map from the arguments to their PHIs.
\* The PHI created last is the last instruction of the table.
record_arg_phi(h, map, original_arg) ==
    [h |-> h,
     arg_remap |-> IF Ok(h) THEN value_map_put(h, map, original_arg, h.instrs[NewInstr(h)].dest)
                   ELSE map]

\* Step 1: a PHI in the entry block for each argument. arg_op walks the operands
\* of the call along with the arguments.
RECURSIVE create_arg_phis(_, _, _)
create_arg_phis(t, call_instr, i) ==
    IF ~Ok(t.h) \/ i > Len(t.h.func.args) THEN t
    ELSE create_arg_phis(
             record_arg_phi(
                 ir_builder_create_phi(
                     ir_builder_set_insertion_block_start(
                         IF Len(t.h.instrs[call_instr].operands) < i + 1
                         THEN NullDeref(t.h) ELSE t.h,
                         t.h.func.entry)),
                 t.arg_remap, t.h.func.args[i]),
             call_instr, i + 1)

\* The argument whose PHI defines dest, NULL if there is none.
mapped_argument(h, map, dest) ==
    IF \A j \in 1..Len(h.func.args) : value_map_get(map, h.func.args[j]) # dest THEN NULL
    ELSE h.func.args[Min({j \in 1..Len(h.func.args) :
                              value_map_get(map, h.func.args[j]) = dest})]

RECURSIVE add_caller_entries(_, _, _, _)
add_caller_entries(h, map, phis, pred) ==
    IF ~Ok(h) \/ phis = <<>> THEN h
    ELSE add_caller_entries(
             IF mapped_argument(h, map, h.instrs[Head(phis)].dest) # NULL
             THEN ir_phi_add_incoming(h, Head(phis),
                                      mapped_argument(h, map, h.instrs[Head(phis)].dest), pred)
             ELSE h,
             map, Tail(phis), pred)

\* Step 2: every PHI gets the argument as the value coming from each predecessor
\* the entry block has.
RECURSIVE fill_from_predecessors(_, _, _)
fill_from_predecessors(h, map, i) ==
    IF ~Ok(h) \/ i > Len(h.bbs[h.func.entry].predecessors) THEN h
    ELSE fill_from_predecessors(
             add_caller_entries(h, map, BlockPhis(h, h.func.entry),
                                h.bbs[h.func.entry].predecessors[i]),
             map, i + 1)

\* The first PHI of phis that defines dest.
RECURSIVE phi_defining(_, _, _)
phi_defining(h, phis, dest) ==
    IF phis = <<>> THEN NULL
    ELSE IF h.instrs[Head(phis)].dest = dest THEN Head(phis)
    ELSE phi_defining(h, Tail(phis), dest)

add_recursive_entry(h, phi, recursive_arg, tail_block) ==
    IF phi = NULL THEN h ELSE ir_phi_add_incoming(h, phi, recursive_arg, tail_block)

\* Step 3: every PHI gets the operand of the call as the value coming from the
\* block of the call.
RECURSIVE add_recursive_entries(_, _, _, _, _)
add_recursive_entries(h, map, call_instr, tail_block, i) ==
    IF ~Ok(h) \/ i > Len(h.func.args) THEN h
    ELSE add_recursive_entries(
             IF Len(h.instrs[call_instr].operands) < i + 1 THEN NullDeref(h)
             ELSE add_recursive_entry(
                      h,
                      phi_defining(h, BlockPhis(h, h.func.entry),
                                   value_map_get(map, h.func.args[i])),
                      OperandData(h, call_instr, i + 1), tail_block),
             map, call_instr, tail_block, i + 1)

\* The value operands of the instructions of the function, the PHIs of the entry
\* block left out.
BodyValueOps(h) ==
    {o \in UNION {Range(h.instrs[i].operands) :
                    i \in UNION {{j \in Range(BlockInstrs(h, FuncBlocks(h)[k])) :
                                     ~(FuncBlocks(h)[k] = h.func.entry
                                       /\ h.instrs[j].opcode = "phi")} :
                                 k \in 1..Len(FuncBlocks(h))}} :
        h.ops[o].kind = "value"}

\* Step 4: op->data.value = mapped_val, for the operands among ops that the map
\* knows. The use lists are left as they are.
remap_operands(h, map, ops) ==
    IF ~Ok(h) THEN h
    ELSE [h EXCEPT !.ops = [o \in DOMAIN h.ops |->
                               IF o \in ops /\ value_map_get(map, h.ops[o].data) # NULL
                               THEN [h.ops[o] EXCEPT !.data = value_map_get(map, @)]
                               ELSE h.ops[o]]]

remap_body(h, map) == IF ~Ok(h) THEN h ELSE remap_operands(h, map, BodyValueOps(h))

\* Steps 2 to 4.
fill_arg_phis(t, call_instr, tail_block) ==
    remap_body(
        add_recursive_entries(fill_from_predecessors(t.h, t.arg_remap, 1),
                              t.arg_remap, call_instr, tail_block, 1),
        t.arg_remap)

\* Step 5.
erase_call_and_ret(h, call_instr, ret_instr) ==
    erase_instruction(erase_instruction(h, call_instr), ret_instr)

\* Steps 6 and 7.
branch_to_entry(h, tail_block, entry_block) ==
    add_predecessor(
        add_successor(
            ir_builder_create_br(ir_builder_set_insertion_block_end(h, tail_block),
                                 entry_block),
            tail_block, entry_block),
        entry_block, tail_block)

\* The caller has checked the pattern: the early returns are not taken.
eliminate_tail_call(h, call_instr) ==
    IF ~Ok(h) THEN h
    ELSE branch_to_entry(
             erase_call_and_ret(
                 fill_arg_phis(
                     create_arg_phis([h |-> ir_builder_init(h), arg_remap |-> <<>>],
                                     call_instr, 1),
                     call_instr, h.instrs[call_instr].parent),
                 call_instr, h.instrs[call_instr].next),
             h.instrs[call_instr].parent, h.func.entry)

\* The call of block bb if the block ends with a recursive tail call, or NULL.
tail_call_of(h, bb) ==
    LET ret_instr == h.bbs[bb].tail IN
    IF ret_instr = NULL \/ h.instrs[ret_instr].opcode # "ret" THEN NULL
    ELSE IF h.instrs[ret_instr].prev = NULL
            \/ h.instrs[h.instrs[ret_instr].prev].opcode # "call" THEN NULL
    ELSE IF is_tail_call_pattern(h, h.instrs[ret_instr].prev, ret_instr)
            /\ is_direct_recursive_call(h, h.instrs[ret_instr].prev)
    THEN h.instrs[ret_instr].prev
    ELSE NULL

RECURSIVE first_tail_call(_, _)
first_tail_call(h, blocks) ==
    IF blocks = <<>> THEN NULL
    ELSE IF tail_call_of(h, Head(blocks)) # NULL THEN tail_call_of(h, Head(blocks))
    ELSE first_tail_call(h, Tail(blocks))

eliminate_and_simplify(h, call_instr) ==
    IF call_instr = NULL THEN h
    ELSE run_simplify_cfg(build_cfg(eliminate_tail_call(h, call_instr)))

run_tail_call_elim(h) ==
    IF ~Ok(h) \/ h.func.entry = NULL THEN h
    ELSE eliminate_and_simplify(h, first_tail_call(h, FuncBlocks(h)))

----------------------------------------------------------------------------
(* run_tail_call_elim on functions of TCEBlocks blocks *)

TCEBlocks == 2
MaxArgs == 2

\* The blocks that the terminators reach from the blocks seen.
RECURSIVE TermReachable(_, _)
TermReachable(terms, seen) ==
    LET more == UNION {{terms[b][k] : k \in 2..Len(terms[b])} : b \in seen} \ seen IN
    IF more = {} THEN seen ELSE TermReachable(terms, seen \cup more)

\* Control flow as the optimizer leaves it: no branch to the entry block, no
\* block out of reach.
ConnectedTerminators(n) ==
    {terms \in [1..n -> BodyTerminators(n)] : TermReachable(terms, {1}) = 1..n}

\* How the operands of the recursive call are made: the arguments themselves,
\* a constant, or the result of an add of the block.
CallArgs == {"arg", "const", "temp"}

\* ret void, or ret of val.
with_ret(h, b, val) ==
    IF val = NULL THEN emit(h, b, "ret", FALSE, <<>>) ELSE emit(h, b, "ret", FALSE, <<V(val)>>)

\* call callee(x, .., x) with one operand per argument of the function (the
\* semantic analysis rejects other calls): temp is the register defined last.
with_call(h, b, nargs, callee, void, callarg, temp) ==
    emit(h, b, "call", ~void,
         <<V(callee)>> \o [i \in 1..nargs |-> V(IF callarg = "arg" THEN i
                                                 ELSE IF callarg = "const" THEN nargs + 1
                                                 ELSE temp)])

with_call_of_last(h, b, nargs, callee, void, callarg) ==
    with_call(h, b, nargs, callee, void, callarg, NewVal(h))

\* The result of the call, the register defined last, is returned.
with_ret_of_last(h, b, void) == with_ret(h, b, IF void THEN NULL ELSE NewVal(h))

with_tail_call(h, b, nargs, callee, void, callarg) ==
    with_ret_of_last(
        with_call_of_last(
            IF callarg = "temp" THEN emit(h, b, "add", TRUE, <<V(1), V(nargs + 1)>>) ELSE h,
            b, nargs, callee, void, callarg),
        b, void)

\* Block b: the tail call if it is among calls and ends with ret; else its
\* terminator, branching on the first argument, returning the constant.
RECURSIVE with_tce_bodies(_, _, _, _, _, _, _, _)
with_tce_bodies(h, terms, b, nargs, callee, void, callarg, calls) ==
    IF ~Ok(h) \/ b > Len(terms) THEN h
    ELSE with_tce_bodies(
             IF terms[b][1] = "ret"
             THEN IF b \in calls THEN with_tail_call(h, b, nargs, callee, void, callarg)
                  ELSE with_ret(h, b, IF void THEN NULL ELSE nargs + 1)
             ELSE with_terminator(h, b, terms[b], 1),
             terms, b + 1, nargs, callee, void, callarg, calls)

\* Values 1..nargs are the arguments, nargs+1 the constant 1, nargs+2 the
\* function itself, nargs+3 another function.
tce_function(terms, nargs, callee, void, callarg, calls) ==
    with_tce_bodies(
        create_ir_value(
            create_ir_value(
                create_ir_value(function_skeleton(nargs, Len(terms)), "const", 1),
                "self", 0),
            "other", 0),
        terms, 1, nargs, nargs + callee, void, callarg, calls)

InitTCE == InitSCFG

\* The optimizer hands over a function with its CFG built.
GenerateTCE ==
    /\ last.op = "init"
    /\ \E terms \in ConnectedTerminators(TCEBlocks), nargs \in 1..MaxArgs, callee \in 2..3,
          void \in BOOLEAN, callarg \in CallArgs, calls \in SUBSET (1..TCEBlocks) :
         /\ ir' = build_cfg(tce_function(terms, nargs, callee, void, callarg, calls))
         /\ last' = [n |-> 1, op |-> "generate", before |-> ir']
    /\ UNCHANGED <<build, exec>>

RunTailCallElim ==
    /\ Ok(ir)
    /\ last.op = "generate"
    /\ ir' = run_tail_call_elim(ir)
    /\ last' = [last EXCEPT !.n = 2, !.op = "run_tail_call_elim"]
    /\ UNCHANGED <<build, exec>>

NextTCE == GenerateTCE \/ RunTailCallElim

SpecTCE == InitTCE /\ [][NextTCE]_vars

\* The values of the (value, block) pairs of a PHI.
PhiIncomingValues(h, phi) ==
    {h.ops[h.instrs[phi].operands[k]].data :
        k \in {j \in 1..Len(h.instrs[phi].operands) : j % 2 = 1}}

\* The call that the pass eliminated in the function it was given, or NULL.
EliminatedCall == first_tail_call(last.before, FuncBlocks(last.before))

C3_ErasedResultsAreUnused ==
    last.op = "run_tail_call_elim" =>
        \A k \in 1..Len(ir.erased) : ~ir.erased[k].used

----------------------------------------------------------------------------
(* Natural loops (loop_analysis.c) *)

\* A Loop that is given a preheader at once, the first predecessor of the
\* header that is not the header: a function in which the loop passes get past
\* their test of loop->preheader.
first_other(preds, header) ==
    IF SelectSeq(preds, LAMBDA p : p # header) = <<>> THEN NULL
    ELSE Head(SelectSeq(preds, LAMBDA p : p # header))

new_loop_with_preheader(h, header) ==
    [header |-> header, loop_blocks_bs |-> {h.bbs[header].post_order_id}, num_blocks |-> 1,
     blocks |-> <<>>, back_edges |-> <<>>, exit_blocks |-> <<>>,
     parent |-> NULL, sub_loops |-> <<>>,
     preheader |-> first_other(h.bbs[header].predecessors, header)]

\* A Loop. loop_blocks_bs is the set of the post-order ids it holds; the loops
\* of a function are numbered in the order of their creation.
new_loop(h, header) ==
    [header |-> header, loop_blocks_bs |-> {h.bbs[header].post_order_id}, num_blocks |-> 1,
     blocks |-> <<>>, back_edges |-> <<>>, exit_blocks |-> <<>>,
     parent |-> NULL, sub_loops |-> <<>>, preheader |-> NULL]

\* header_map[bb->post_order_id]
loop_of_header(h, loops, bb) ==
    IF \A k \in 1..Len(loops) :
           h.bbs[loops[k].header].post_order_id # h.bbs[bb].post_order_id
    THEN NULL
    ELSE CHOOSE k \in 1..Len(loops) :
             h.bbs[loops[k].header].post_order_id = h.bbs[bb].post_order_id

add_back_edge_to_loop(loops, k, back_edge_src) ==
    [loops EXCEPT ![k].back_edges = Append(@, back_edge_src)]

\* The edge n -> d is a back edge: it joins the loop of header d, made if new.
record_back_edge(h, loops, bb_n, bb_d_header) ==
    IF loop_of_header(h, loops, bb_d_header) = NULL
    THEN add_back_edge_to_loop(Append(loops, new_loop(h, bb_d_header)), Len(loops) + 1, bb_n)
    ELSE add_back_edge_to_loop(loops, loop_of_header(h, loops, bb_d_header), bb_n)

RECURSIVE find_back_edges_from(_, _, _, _)
find_back_edges_from(h, loops, bb_n, j) ==
    IF j > Len(h.bbs[bb_n].successors) THEN loops
    ELSE find_back_edges_from(
             h,
             IF dominates(h, h.bbs[bb_n].successors[j], bb_n)
             THEN record_back_edge(h, loops, bb_n, h.bbs[bb_n].successors[j])
             ELSE loops,
             bb_n, j + 1)

RECURSIVE find_back_edges(_, _, _)
find_back_edges(h, loops, i) ==
    IF i > Len(h.func.reverse_post_order) THEN loops
    ELSE find_back_edges(h, find_back_edges_from(h, loops, h.func.reverse_post_order[i], 1),
                         i + 1)

add_block_to_loop(h, loop, bb) ==
    IF h.bbs[bb].post_order_id \in loop.loop_blocks_bs THEN loop
    ELSE [loop EXCEPT !.loop_blocks_bs = @ \cup {h.bbs[bb].post_order_id},
                      !.num_blocks = @ + 1]

\* s = [loop, wl]: the loop and the worklist of collect_loop_body.
visit_block(h, s, bb) ==
    [loop |-> add_block_to_loop(h, s.loop, bb), wl |-> Append(s.wl, bb)]

RECURSIVE seed_back_edges(_, _, _)
seed_back_edges(h, s, i) ==
    IF i > Len(s.loop.back_edges) THEN s
    ELSE seed_back_edges(h, visit_block(h, s, s.loop.back_edges[i]), i + 1)

RECURSIVE collect_predecessors(_, _, _, _)
collect_predecessors(h, s, preds, i) ==
    IF i > Len(preds) THEN s
    ELSE collect_predecessors(
             h,
             IF h.bbs[preds[i]].post_order_id \notin s.loop.loop_blocks_bs
             THEN visit_block(h, s, preds[i]) ELSE s,
             preds, i + 1)

RECURSIVE collect_worklist(_, _)
collect_worklist(h, s) ==
    IF s.wl = <<>> THEN s.loop
    ELSE collect_worklist(h, collect_predecessors(h, [s EXCEPT !.wl = Pop(@)],
                                                  h.bbs[Top(s.wl)].predecessors, 1))

collect_loop_body(h, loop) ==
    collect_worklist(h, seed_back_edges(h, [loop |-> loop, wl |-> <<>>], 1))

\* The blocks of order whose post-order id is in bs, in the order of order.
RECURSIVE blocks_within(_, _, _)
blocks_within(h, order, bs) ==
    IF order = <<>> THEN <<>>
    ELSE IF h.bbs[Head(order)].post_order_id \in bs
    THEN <<Head(order)>> \o blocks_within(h, Tail(order), bs)
    ELSE blocks_within(h, Tail(order), bs)

\* The successors outside the loop, each post-order id once.
RECURSIVE exits_from(_, _, _, _, _)
exits_from(h, bs, blocks, j, exits) ==
    IF blocks = <<>> THEN exits
    ELSE IF j > Len(h.bbs[Head(blocks)].successors) THEN exits_from(h, bs, Tail(blocks), 1, exits)
    ELSE exits_from(
             h, bs, blocks, j + 1,
             IF h.bbs[h.bbs[Head(blocks)].successors[j]].post_order_id
                    \notin bs \cup {h.bbs[exits[k]].post_order_id : k \in 1..Len(exits)}
             THEN Append(exits, h.bbs[Head(blocks)].successors[j])
             ELSE exits)

compute_exit_blocks(h, loop) ==
    [loop EXCEPT !.exit_blocks = exits_from(h, loop.loop_blocks_bs, loop.blocks, 1, <<>>)]

fill_loop_blocks(h, loop) ==
    compute_exit_blocks(
        h, [loop EXCEPT !.blocks = blocks_within(h, h.func.reverse_post_order,
                                                 loop.loop_blocks_bs)])

\* The body, the block array and the exits of every loop.
fill_loops(h, loops) ==
    [k \in 1..Len(loops) |-> fill_loop_blocks(h, collect_loop_body(h, loops[k]))]

\* The bubble sort of build_loop_hierarchy swaps neighbours only when the left
\* one holds more blocks: loop k goes behind the loops that hold no more than it.
RECURSIVE insert_by_size(_, _, _)
insert_by_size(loops, sorted, k) ==
    IF sorted = <<>> THEN <<k>>
    ELSE IF loops[Head(sorted)].num_blocks > loops[k].num_blocks THEN <<k>> \o sorted
    ELSE <<Head(sorted)>> \o insert_by_size(loops, Tail(sorted), k)

RECURSIVE sort_loops_by_size(_, _, _)
sort_loops_by_size(loops, sorted, k) ==
    IF k > Len(loops) THEN sorted
    ELSE sort_loops_by_size(loops, insert_by_size(loops, sorted, k), k + 1)

\* The first loop behind place i of all_loops that holds the header of the loop
\* at place i, or NULL.
enclosing_loop(h, loops, all_loops, i) ==
    IF \A j \in (i + 1)..Len(all_loops) :
           h.bbs[loops[all_loops[i]].header].post_order_id
               \notin loops[all_loops[j]].loop_blocks_bs
    THEN NULL
    ELSE all_loops[Min({j \in (i + 1)..Len(all_loops) :
                           h.bbs[loops[all_loops[i]].header].post_order_id
                               \in loops[all_loops[j]].loop_blocks_bs})]

set_parent_loop(loops, l1, l2) ==
    IF l2 = NULL THEN loops
    ELSE [loops EXCEPT ![l1].parent = l2, ![l2].sub_loops = Append(@, l1)]

RECURSIVE assign_parents(_, _, _, _)
assign_parents(h, loops, all_loops, i) ==
    IF i > Len(all_loops) THEN loops
    ELSE assign_parents(h,
                        set_parent_loop(loops, all_loops[i],
                                        enclosing_loop(h, loops, all_loops, i)),
                        all_loops, i + 1)

\* func->top_level_loops: each loop without a parent is put at the head of the list.
RECURSIVE top_level_list(_, _, _)
top_level_list(loops, all_loops, top) ==
    IF all_loops = <<>> THEN top
    ELSE top_level_list(loops, Tail(all_loops),
                        IF loops[Head(all_loops)].parent = NULL
                        THEN <<Head(all_loops)>> \o top ELSE top)

\* c = [h, loops, top_level_loops, changed]: the heap and the loops of the function.
build_loop_hierarchy(h, loops, all_loops) ==
    [h |-> IF \E k \in 1..Len(loops) : Len(loops[k].blocks) # loops[k].num_blocks
           THEN AssertFails(h) ELSE h,
     loops |-> assign_parents(h, loops, all_loops, 1),
     top_level_loops |-> top_level_list(assign_parents(h, loops, all_loops, 1), all_loops, <<>>),
     changed |-> FALSE]

sorted_hierarchy(h, loops) ==
    build_loop_hierarchy(h, loops, sort_loops_by_size(loops, <<>>, 1))

find_loops(h) ==
    IF ~Ok(h) \/ h.func.entry = NULL \/ h.func.reverse_post_order = <<>>
    THEN [h |-> h, loops |-> <<>>, top_level_loops |-> <<>>, changed |-> FALSE]
    ELSE sorted_hierarchy(h, fill_loops(h, find_back_edges(h, <<>>, 1)))

RECURSIVE nesting_depth(_, _)
nesting_depth(loops, k) ==
    IF loops[k].parent = NULL THEN 0 ELSE 1 + nesting_depth(loops, loops[k].parent)

\* compare_loops_by_depth: the deeper loop first; at one depth, the one whose
\* header has the higher post-order id first.
loop_before(h, loops, k1, k2) ==
    \/ nesting_depth(loops, k1) > nesting_depth(loops, k2)
    \/ /\ nesting_depth(loops, k1) = nesting_depth(loops, k2)
       /\ h.bbs[loops[k1].header].post_order_id > h.bbs[loops[k2].header].post_order_id

\* Every loop hangs under a top-level loop: the list holds them all, ordered by
\* the comparison.
RECURSIVE loops_in_order(_, _, _)
loops_in_order(h, loops, rest) ==
    IF rest = {} THEN <<>>
    ELSE LET first == CHOOSE k \in rest : \A k2 \in rest \ {k} : ~loop_before(h, loops, k2, k)
         IN <<first>> \o loops_in_order(h, loops, rest \ {first})

get_loops_sorted_by_depth(c) == loops_in_order(c.h, c.loops, 1..Len(c.loops))

----------------------------------------------------------------------------
(* Loop-invariant code motion (licm.c) *)

\* The predecessors of the header that the loop does not hold.
RECURSIVE outside_predecessors(_, _, _)
outside_predecessors(h, loop, preds) ==
    IF preds = <<>> THEN <<>>
    ELSE IF Head(preds) # NULL /\ h.bbs[Head(preds)].post_order_id \notin loop.loop_blocks_bs
    THEN <<Head(preds)>> \o outside_predecessors(h, loop, Tail(preds))
    ELSE outside_predecessors(h, loop, Tail(preds))

\* The place of the first (value, block) pair of ops whose block is pred, or 0.
RECURSIVE pair_from(_, _, _, _)
pair_from(h, ops, k, pred) ==
    IF k + 1 > Len(ops) THEN 0
    ELSE IF h.ops[ops[k + 1]].data = pred THEN k
    ELSE pair_from(h, ops, k + 2, pred)

\* The pair of the header PHI for pred moves to the PHI of the preheader.
move_pair(h, ops, k, preheader_phi, pred) ==
    IF k = 0 THEN h
    ELSE remove_operands_in_turn(ir_phi_add_incoming(h, preheader_phi, h.ops[ops[k]].data, pred),
                                 <<ops[k + 1], ops[k]>>)

RECURSIVE move_outside_pairs(_, _, _, _)
move_outside_pairs(h, instr, preheader_phi, preds) ==
    IF ~Ok(h) \/ preds = <<>> THEN h
    ELSE move_outside_pairs(
             move_pair(h, h.instrs[instr].operands,
                       pair_from(h, h.instrs[instr].operands, 1, Head(preds)),
                       preheader_phi, Head(preds)),
             instr, preheader_phi, Tail(preds))

join_preheader_phi(h, instr, preheader_phi, preheader) ==
    IF ~Ok(h) THEN h
    ELSE ir_phi_add_incoming(h, instr, h.instrs[preheader_phi].dest, preheader)

\* The PHI created is the last instruction of the table.
split_header_phi(h, instr, preheader, preds) ==
    join_preheader_phi(
        move_outside_pairs(
            ir_builder_create_phi(ir_builder_set_insertion_block_end(h, preheader)),
            instr, Len(h.instrs) + 1, preds),
        instr, Len(h.instrs) + 1, preheader)

RECURSIVE split_header_phis(_, _, _, _)
split_header_phis(h, phis, preheader, preds) ==
    IF ~Ok(h) \/ phis = <<>> THEN h
    ELSE split_header_phis(split_header_phi(h, Head(phis), preheader, preds),
                           Tail(phis), preheader, preds)

RECURSIVE redirect_to_preheader(_, _, _, _)
redirect_to_preheader(h, preds, header, preheader) ==
    IF ~Ok(h) \/ preds = <<>> THEN h
    ELSE redirect_to_preheader(redirect_edge(h, Head(preds), header, preheader),
                               Tail(preds), header, preheader)

\* The new block, the last of the table, becomes the preheader.
insert_preheader(h, header, preheader, preds) ==
    ir_builder_create_br(
        ir_builder_set_insertion_block_end(
            redirect_to_preheader(
                split_header_phis(h, BlockPhis(h, header), preheader, preds),
                preds, header, preheader),
            preheader),
        header)

with_preheader(c, k, preheader) == [c EXCEPT !.loops[k].preheader = preheader]

ensure_loop_preheader_for(c, k, header, preds) ==
    IF preds = <<>> THEN c
    ELSE IF Len(preds) = 1 /\ Len(c.h.bbs[preds[1]].successors) = 1
    THEN with_preheader(c, k, preds[1])
    ELSE [with_preheader(c, k, Len(c.h.bbs) + 1)
             EXCEPT !.h = insert_preheader(create_ir_basic_block(c.h), header,
                                           Len(c.h.bbs) + 1, preds),
                    !.changed = TRUE]

ensure_loop_preheader(c, k) ==
    IF ~Ok(c.h) \/ c.loops[k].header = NULL THEN c
    ELSE ensure_loop_preheader_for(
             c, k, c.loops[k].header,
             outside_predecessors(c.h, c.loops[k], c.h.bbs[c.loops[k].header].predecessors))

RECURSIVE ensure_preheaders(_, _)
ensure_preheaders(c, sorted_loops) ==
    IF sorted_loops = <<>> THEN c
    ELSE ensure_preheaders(ensure_loop_preheader(c, Head(sorted_loops)), Tail(sorted_loops))

ensure_all_loop_preheaders(c) ==
    ensure_preheaders([c EXCEPT !.h = ir_builder_init(c.h), !.changed = FALSE],
                      get_loops_sorted_by_depth(c))

is_instruction_safe_to_speculate(h, instr) ==
    /\ h.instrs[instr].opcode \in {"add", "sub", "mul", "fadd", "fsub", "fmul", "shl", "ashr",
                                   "lshr", "and", "or", "xor", "icmp", "fcmp",
                                   "getelementptr", "phi"}
    /\ h.instrs[instr].dest # NULL

\* No operand is defined in the loop. (The instructions of the functions here
\* have value operands only, apart from the terminators, which are not safe to
\* speculate.)
is_loop_invariant(h, instr, loop_blocks_bs) ==
    /\ is_instruction_safe_to_speculate(h, instr)
    /\ \A k \in 1..Len(h.instrs[instr].operands) :
          \/ h.vals[OperandData(h, instr, k)].is_constant
          \/ h.vals[OperandData(h, instr, k)].def_instr = NULL
          \/ h.bbs[h.instrs[h.vals[OperandData(h, instr, k)].def_instr].parent].post_order_id
                 \notin loop_blocks_bs

dominates_all_exits(h, instr, loop) ==
    /\ h.instrs[instr].parent # NULL
    /\ \A i \in 1..Len(loop.exit_blocks) :
          dominates(h, h.instrs[instr].parent, loop.exit_blocks[i])

can_hoist_instruction(h, instr, loop) ==
    /\ \A i \in 1..Len(loop.exit_blocks) :
          dominates(h, h.instrs[instr].parent, loop.exit_blocks[i])
    /\ \/ is_instruction_safe_to_speculate(h, instr)
       \/ \A i \in 1..Len(loop.back_edges) :
             dominates(h, h.instrs[instr].parent, loop.back_edges[i])

calculate_hoist_priority(h, instr) ==
    IF h.instrs[instr].opcode \in {"add", "sub", "mul", "sdiv", "srem"} THEN 10
    ELSE IF h.instrs[instr].opcode = "load" THEN 5
    ELSE IF h.instrs[instr].opcode = "call" THEN 3
    ELSE 1

\* The candidates of the instructions instrs, in their order.
RECURSIVE candidates_among(_, _, _)
candidates_among(h, loop, instrs) ==
    IF instrs = <<>> THEN <<>>
    ELSE IF is_loop_invariant(h, Head(instrs), loop.loop_blocks_bs)
            /\ can_hoist_instruction(h, Head(instrs), loop)
    THEN <<Head(instrs)>> \o candidates_among(h, loop, Tail(instrs))
    ELSE candidates_among(h, loop, Tail(instrs))

RECURSIVE collect_hoist_candidates(_, _, _)
collect_hoist_candidates(h, loop, blocks) ==
    IF blocks = <<>> THEN <<>>
    ELSE candidates_among(h, loop, BlockInstrs(h, Head(blocks)))
             \o collect_hoist_candidates(h, loop, Tail(blocks))

\* The bubble sort swaps neighbours only when the right one has the higher
\* priority: a candidate goes behind those of no lower priority.
RECURSIVE insert_by_priority(_, _, _)
insert_by_priority(h, sorted, instr) ==
    IF sorted = <<>> THEN <<instr>>
    ELSE IF calculate_hoist_priority(h, Head(sorted)) < calculate_hoist_priority(h, instr)
    THEN <<instr>> \o sorted
    ELSE <<Head(sorted)>> \o insert_by_priority(h, Tail(sorted), instr)

RECURSIVE sort_hoist_candidates(_, _, _)
sort_hoist_candidates(h, sorted, candidates) ==
    IF candidates = <<>> THEN sorted
    ELSE sort_hoist_candidates(h, insert_by_priority(h, sorted, Head(candidates)),
                               Tail(candidates))

\* The instruction leaves the list of its block, keeping its own parent, and is
\* put before the terminator of the preheader.
hoist_to(h, instr, pos) ==
    IF pos = NULL THEN NullDeref(AssertFails(h)) ELSE insert_instr_before(h, instr, pos)

hoist_instruction(h, instr, I, preheader) ==
    IF ~Ok(h) THEN h
    ELSE hoist_to(set_prev_or_tail(set_next_or_head(h, I.prev, I.parent, I.next),
                                   I.next, I.parent, I.prev),
                  instr, h.bbs[preheader].tail)

\* is_safe_to_hoist holds for every candidate: the two tests it is made of are
\* among those that made the instruction a candidate.
RECURSIVE hoist_candidates(_, _, _)
hoist_candidates(h, candidates, loop) ==
    IF ~Ok(h) \/ candidates = <<>> THEN h
    ELSE hoist_candidates(
             IF is_instruction_safe_to_speculate(h, Head(candidates))
                /\ dominates_all_exits(h, Head(candidates), loop)
             THEN hoist_instruction(h, Head(candidates), h.instrs[Head(candidates)],
                                    loop.preheader)
             ELSE h,
             Tail(candidates), loop)

\* while (true): collect, stop when there is no candidate, hoist. A round that
\* leaves the function as it was is followed by the same round for ever.
RECURSIVE licm_rounds(_, _, _)
licm_next(c, h1, k, fuel) ==
    IF ~Ok(h1) THEN [c EXCEPT !.h = h1, !.changed = TRUE]
    ELSE IF h1 = c.h THEN [c EXCEPT !.h = Stop(h1, "hang")]
    ELSE IF fuel = 0 THEN [c EXCEPT !.h = Stop(h1, "fuel")]
    ELSE licm_rounds([c EXCEPT !.h = h1, !.changed = TRUE], k, fuel - 1)

licm_round(c, k, candidates, fuel) ==
    IF candidates = <<>> THEN c
    ELSE licm_next(c, hoist_candidates(c.h, sort_hoist_candidates(c.h, <<>>, candidates),
                                       c.loops[k]),
                   k, fuel)

licm_rounds(c, k, fuel) ==
    IF ~Ok(c.h) THEN c
    ELSE licm_round(c, k, collect_hoist_candidates(c.h, c.loops[k], c.loops[k].blocks), fuel)

process_loop_for_licm(c, k) ==
    IF ~Ok(c.h) \/ c.loops[k].preheader = NULL THEN c
    ELSE licm_rounds(c, k, Fuel(c.h))

\* The loops inside first, then the loop.
RECURSIVE process_loop_recursively(_, _)
RECURSIVE process_loops(_, _)
process_loops(c, ks) ==
    IF ks = <<>> THEN c ELSE process_loops(process_loop_recursively(c, Head(ks)), Tail(ks))

process_loop_recursively(c, k) ==
    process_loop_for_licm(process_loops(c, c.loops[k].sub_loops), k)

\* The analyses are made anew when a preheader was inserted.
loops_for_licm(c) ==
    IF c.changed THEN [find_loops(compute_dominators(build_cfg(c.h))) EXCEPT !.changed = TRUE]
    ELSE c

process_all_loops(c) == process_loops(c, c.top_level_loops).h

hoist_in_loops(c) ==
    IF c.top_level_loops = <<>> THEN c.h
    ELSE process_all_loops(loops_for_licm(ensure_all_loop_preheaders(c)))

run_licm(h) ==
    IF ~Ok(h) \/ h.func.entry = NULL THEN h ELSE hoist_in_loops(find_loops(h))

----------------------------------------------------------------------------
(* run_licm on functions of LICMBlocks blocks *)

LICMBlocks == 3

\* Block 1 defines %n = add %a, 1; block at holds %t = mul %n, 1 and its use
\* %u = sdiv %t, %t. Value 1 is the argument, value 2 the constant.
RECURSIVE with_licm_bodies(_, _, _, _)
with_licm_bodies(h, terms, b, at) ==
    IF ~Ok(h) \/ b > Len(terms) THEN h
    ELSE with_licm_bodies(
             with_terminator(
                 IF b = 1 THEN emit(h, b, "add", TRUE, <<V(1), V(2)>>)
                 ELSE IF b = at
                 THEN emit(emit(h, b, "mul", TRUE, <<V(3), V(2)>>),
                           b, "sdiv", TRUE, <<V(4), V(4)>>)
                 ELSE h,
                 b, terms[b], 1),
             terms, b + 1, at)

licm_function(terms, at) ==
    with_licm_bodies(create_ir_value(function_skeleton(1, Len(terms)), "const", 1),
                     terms, 1, at)

InitLICM == InitSCFG

\* The optimizer hands over a function with its CFG and its dominators computed.
GenerateLICM ==
    /\ last.op = "init"
    /\ \E terms \in ConnectedTerminators(LICMBlocks), at \in 2..LICMBlocks :
         /\ ir' = compute_dominators(build_cfg(licm_function(terms, at)))
         /\ last' = [n |-> 1, op |-> "generate", before |-> ir']
    /\ UNCHANGED <<build, exec>>

RunLicm ==
    /\ Ok(ir)
    /\ last.op = "generate"
    /\ ir' = run_licm(ir)
    /\ last' = [last EXCEPT !.n = 2, !.op = "run_licm"]
    /\ UNCHANGED <<build, exec>>

NextLICM == GenerateLICM \/ RunLicm

SpecLICM == InitLICM /\ [][NextLICM]_vars

\* The blocks from which a path leads to block `to` without entering `without`.
RECURSIVE ReachingAvoiding(_, _, _)
ReachingAvoiding(h, seen, without) ==
    LET more == {p \in UNION {Range(Pred(h, b)) : b \in seen} : p # without} \ seen IN
    IF more = {} THEN seen ELSE ReachingAvoiding(h, seen \cup more, without)

\* The natural loop of header hd: hd and the blocks that reach, without passing
\* hd, a block n with an edge n -> hd that hd dominates. Empty if there is none.
NaturalLoop(h, hd) ==
    LET sources == {n \in Range(Pred(h, hd)) \cap Reachable(h) : Dominates(h, hd, n)} IN
    IF sources = {} THEN {}
    ELSE {hd} \cup ReachingAvoiding(h, sources \ {hd}, hd)

\* The preheaders of the loop of header hd: the one predecessor outside the loop,
\* if the header is its one successor.
Preheaders(h, hd) ==
    {p \in Range(Pred(h, hd)) \ NaturalLoop(h, hd) :
        /\ Range(Pred(h, hd)) \ NaturalLoop(h, hd) = {p}
        /\ Succ(h, p) = <<hd>>}

TheMul(h) == CHOOSE i \in 1..Len(h.instrs) : h.instrs[i].opcode = "mul"
TheUse(h) == CHOOSE i \in 1..Len(h.instrs) : h.instrs[i].opcode = "sdiv"

\* The loops with a preheader that hold the mul in the function handed over.
LoopsOfMul ==
    {hd \in Range(FuncBlocks(last.before)) :
        /\ last.before.instrs[TheMul(last.before)].parent \in NaturalLoop(last.before, hd)
        /\ Preheaders(last.before, hd) # {}}

\* C13: when the mul, whose operands are defined outside every loop, is in a loop
\* that has a preheader, run_licm returns with the mul in the preheader of such a
\* loop, immediately before the terminator of the preheader, and the use of its
\* result still refers to it.
C13_InvariantMulIsHoisted ==
    (last.op = "run_licm" /\ Ok(ir) /\ LoopsOfMul # {}) =>
        /\ \E hd \in LoopsOfMul :
              \E p \in Preheaders(last.before, hd) :
                 /\ TheMul(ir) \in Range(BlockInstrs(ir, p))
                 /\ ir.instrs[TheMul(ir)].parent = p
                 /\ ir.instrs[TheMul(ir)].next = ir.bbs[p].tail
                 /\ is_terminator_instruction(ir, ir.bbs[p].tail)
        /\ \A k \in 1..2 : OperandData(ir, TheUse(ir), k) = ir.instrs[TheMul(ir)].dest

----------------------------------------------------------------------------
(* Instruction combining (inst_combine.c) *)

\* int_val and float_val share the union of IRValue. The payload of an int
\* constant is an integer; the payload of a float constant is kept as a fraction
\* <<n, d>> with d > 0.
Fl(n) == <<n, 1>>
FEq(a, n) == a[1] = n * a[2]
FAdd(a, b) == <<a[1] * b[2] + b[1] * a[2], a[2] * b[2]>>
FSub(a, b) == <<a[1] * b[2] - b[1] * a[2], a[2] * b[2]>>
FMul(a, b) == <<a[1] * b[1], a[2] * b[2]>>
FDiv(a, b) == IF b[1] > 0 THEN <<a[1] * b[2], a[2] * b[1]>>
              ELSE <<(0 - a[1]) * b[2], a[2] * (0 - b[1])>>

Abs(n) == IF n < 0 THEN 0 - n ELSE n
\* The / and % of C on int: the quotient is truncated towards zero.
TruncDiv(a, b) == IF (a < 0) = (b < 0) THEN Abs(a) \div Abs(b) ELSE 0 - (Abs(a) \div Abs(b))
TruncRem(a, b) == a - b * TruncDiv(a, b)

create_const_int(h, value) == create_ir_value(h, "const", value)
create_const_float(h, value) == create_ir_value(h, "const", value)

IntBits == 31
is_power_of_two(n) == n > 0 /\ \E k \in 0..(IntBits - 1) : 2^k = n
log_val(n) == CHOOSE k \in 0..(IntBits - 1) : 2^k = n

IsConst(h, v) == h.vals[v].is_constant
IsInt(h, v, c) == h.vals[v].is_constant /\ h.vals[v].int_val = c
IsFloat(h, v, c) == h.vals[v].is_constant /\ FEq(h.vals[v].int_val, c)
DefOpcode(h, v) ==
    IF h.vals[v].def_instr = NULL THEN "" ELSE h.instrs[h.vals[v].def_instr].opcode

\* What a visit function leaves: the heap, the value it returns, ctx->re_queue.
Keep(h) == [h |-> h, new_val |-> NULL, re_queue |-> FALSE]
Simplified(h, v) == [h |-> h, new_val |-> v, re_queue |-> FALSE]
Folded(h) == [h |-> h, new_val |-> Len(h.vals), re_queue |-> FALSE]
Requeue(h) == [h |-> h, new_val |-> NULL, re_queue |-> TRUE]

set_opcode(h, instr, opcode) == [h EXCEPT !.instrs[instr].opcode = opcode]

\* change_operand_value on operand_head, then on operand_head->next_in_instr.
rewrite_operands(h, instr, v1, v2) ==
    Requeue(change_operand_value(
                change_operand_value(h, h.instrs[instr].operands[1], v1),
                h.instrs[instr].operands[2], v2))

\* change_operand_value on operand_head->next_in_instr alone.
rewrite_rhs(h, instr, v2) ==
    Requeue(change_operand_value(h, h.instrs[instr].operands[2], v2))

visit_unhandled(h) == Keep(h)

visit_add(h, instr, lhs, rhs) ==
    IF IsConst(h, lhs) /\ IsConst(h, rhs)
    THEN Folded(create_const_int(h, h.vals[lhs].int_val + h.vals[rhs].int_val))
    ELSE IF IsConst(h, lhs) /\ ~IsConst(h, rhs) THEN rewrite_operands(h, instr, rhs, lhs)
    ELSE IF IsInt(h, rhs, 0) THEN Simplified(h, lhs)
    ELSE IF DefOpcode(h, lhs) = "sub" /\ OperandData(h, h.vals[lhs].def_instr, 2) = rhs
         THEN Simplified(h, OperandData(h, h.vals[lhs].def_instr, 1))
    ELSE IF DefOpcode(h, rhs) = "sub" /\ OperandData(h, h.vals[rhs].def_instr, 2) = lhs
         THEN Simplified(h, OperandData(h, h.vals[rhs].def_instr, 1))
    ELSE Keep(h)

visit_sub(h, instr, lhs, rhs) ==
    IF IsConst(h, lhs) /\ IsConst(h, rhs)
    THEN Folded(create_const_int(h, h.vals[lhs].int_val - h.vals[rhs].int_val))
    ELSE IF IsInt(h, rhs, 0) THEN Simplified(h, lhs)
    ELSE IF lhs = rhs THEN Folded(create_const_int(h, 0))
    ELSE IF IsConst(h, rhs)
         THEN rewrite_rhs(set_opcode(create_const_int(h, 0 - h.vals[rhs].int_val), instr, "add"),
                          instr, Len(h.vals) + 1)
    ELSE Keep(h)

visit_mul(h, instr, lhs, rhs) ==
    IF IsConst(h, lhs) /\ IsConst(h, rhs)
    THEN Folded(create_const_int(h, h.vals[lhs].int_val * h.vals[rhs].int_val))
    ELSE IF IsConst(h, lhs) /\ ~IsConst(h, rhs) THEN rewrite_operands(h, instr, rhs, lhs)
    ELSE IF ~IsConst(h, rhs) THEN Keep(h)
    ELSE IF IsInt(h, rhs, 0) THEN Folded(create_const_int(h, 0))
    ELSE IF IsInt(h, rhs, 1) THEN Simplified(h, lhs)
    ELSE IF IsInt(h, rhs, -1)
         THEN rewrite_operands(set_opcode(create_const_int(h, 0), instr, "sub"),
                               instr, Len(h.vals) + 1, lhs)
    ELSE IF is_power_of_two(h.vals[rhs].int_val)
         THEN rewrite_rhs(set_opcode(create_const_int(h, log_val(h.vals[rhs].int_val)),
                                     instr, "shl"),
                          instr, Len(h.vals) + 1)
    ELSE Keep(h)

visit_sdiv(h, instr, lhs, rhs) ==
    IF IsInt(h, rhs, 0) THEN Keep(h)
    ELSE IF IsConst(h, lhs) /\ IsConst(h, rhs)
         THEN Folded(create_const_int(h, TruncDiv(h.vals[lhs].int_val, h.vals[rhs].int_val)))
    ELSE IF IsInt(h, rhs, 1) THEN Simplified(h, lhs)
    ELSE IF IsInt(h, rhs, -1)
         THEN rewrite_operands(set_opcode(create_const_int(h, 0), instr, "sub"),
                               instr, Len(h.vals) + 1, lhs)
    ELSE IF IsInt(h, lhs, 0) THEN Folded(create_const_int(h, 0))
    ELSE Keep(h)

visit_srem(h, lhs, rhs) ==
    IF IsInt(h, rhs, 0) THEN Keep(h)
    ELSE IF IsConst(h, lhs) /\ IsConst(h, rhs)
         THEN Folded(create_const_int(h, TruncRem(h.vals[lhs].int_val, h.vals[rhs].int_val)))
    ELSE IF IsInt(h, rhs, 1) \/ IsInt(h, rhs, -1) THEN Folded(create_const_int(h, 0))
    ELSE IF lhs = rhs THEN Folded(create_const_int(h, 0))
    ELSE Keep(h)

visit_fadd(h, lhs, rhs) ==
    IF IsConst(h, lhs) /\ IsConst(h, rhs)
    THEN Folded(create_const_float(h, FAdd(h.vals[lhs].int_val, h.vals[rhs].int_val)))
    ELSE IF IsFloat(h, rhs, 0) THEN Simplified(h, lhs)
    ELSE IF IsFloat(h, lhs, 0) THEN Simplified(h, rhs)
    ELSE Keep(h)

\* fsub 0.0, x is written back as fsub 0.0, x, with a new constant, and re-queued.
visit_fsub(h, instr, lhs, rhs) ==
    IF IsConst(h, lhs) /\ IsConst(h, rhs)
    THEN Folded(create_const_float(h, FSub(h.vals[lhs].int_val, h.vals[rhs].int_val)))
    ELSE IF IsFloat(h, rhs, 0) THEN Simplified(h, lhs)
    ELSE IF IsFloat(h, lhs, 0)
         THEN rewrite_operands(set_opcode(create_const_float(h, Fl(0)), instr, "fsub"),
                               instr, Len(h.vals) + 1, rhs)
    ELSE Keep(h)

visit_fmul(h, instr, lhs, rhs) ==
    IF IsConst(h, lhs) /\ IsConst(h, rhs)
    THEN Folded(create_const_float(h, FMul(h.vals[lhs].int_val, h.vals[rhs].int_val)))
    ELSE IF IsFloat(h, rhs, 1) THEN Simplified(h, lhs)
    ELSE IF IsFloat(h, lhs, 1) THEN Simplified(h, rhs)
    ELSE IF IsFloat(h, rhs, 0) \/ IsFloat(h, lhs, 0) THEN Folded(create_const_float(h, Fl(0)))
    ELSE IF IsFloat(h, rhs, -1)
         THEN rewrite_operands(set_opcode(create_const_float(h, Fl(0)), instr, "fsub"),
                               instr, Len(h.vals) + 1, lhs)
    ELSE IF IsFloat(h, lhs, -1)
         THEN rewrite_operands(set_opcode(create_const_float(h, Fl(0)), instr, "fsub"),
                               instr, Len(h.vals) + 1, rhs)
    ELSE IF IsFloat(h, rhs, 2)
         THEN rewrite_operands(set_opcode(h, instr, "fadd"), instr, lhs, lhs)
    ELSE IF IsFloat(h, lhs, 2)
         THEN rewrite_operands(set_opcode(h, instr, "fadd"), instr, rhs, rhs)
    ELSE Keep(h)

visit_fdiv(h, instr, lhs, rhs) ==
    IF IsFloat(h, rhs, 0) THEN Keep(h)
    ELSE IF IsConst(h, lhs) /\ IsConst(h, rhs)
         THEN Folded(create_const_float(h, FDiv(h.vals[lhs].int_val, h.vals[rhs].int_val)))
    ELSE IF IsFloat(h, lhs, 0) THEN Folded(create_const_float(h, Fl(0)))
    ELSE IF IsFloat(h, rhs, 1) THEN Simplified(h, lhs)
    ELSE IF lhs = rhs THEN Folded(create_const_float(h, Fl(1)))
    ELSE IF IsFloat(h, rhs, -1)
         THEN rewrite_operands(set_opcode(create_const_float(h, Fl(0)), instr, "fsub"),
                               instr, Len(h.vals) + 1, lhs)
    ELSE Keep(h)

\* visit_fn_table for the opcodes of arithmetic; shl, ashr, and, gep and every
\* opcode without an entry leave the instruction alone.
visit_fn(h, instr, opcode, op1, op2) ==
    IF opcode = "add" THEN visit_add(h, instr, op1, op2)
    ELSE IF opcode = "sub" THEN visit_sub(h, instr, op1, op2)
    ELSE IF opcode = "mul" THEN visit_mul(h, instr, op1, op2)
    ELSE IF opcode = "sdiv" THEN visit_sdiv(h, instr, op1, op2)
    ELSE IF opcode = "srem" THEN visit_srem(h, op1, op2)
    ELSE IF opcode = "fadd" THEN visit_fadd(h, op1, op2)
    ELSE IF opcode = "fsub" THEN visit_fsub(h, instr, op1, op2)
    ELSE IF opcode = "fmul" THEN visit_fmul(h, instr, op1, op2)
    ELSE IF opcode = "fdiv" THEN visit_fdiv(h, instr, op1, op2)
    ELSE visit_unhandled(h)

\* ctx.op1, ctx.op2: the data of the first two operands, NULL past the last.
ctx_op(h, instr, k) ==
    IF Len(h.instrs[instr].operands) >= k THEN OperandData(h, instr, k) ELSE NULL

visit(h, instr) ==
    visit_fn(h, instr, h.instrs[instr].opcode, ctx_op(h, instr, 1), ctx_op(h, instr, 2))

\* The users replace_all_uses_with puts on the worklist: those of the use list,
\* in its order, that are not erased and not flagged in_worklist.
RECURSIVE users_to_add(_, _, _)
users_to_add(h, uses, added) ==
    IF uses = <<>> THEN added
    ELSE users_to_add(
             h, Tail(uses),
             IF h.instrs[h.ops[Head(uses)].user].opcode # "unknown"
                /\ ~h.instrs[h.ops[Head(uses)].user].in_worklist
                /\ h.ops[Head(uses)].user \notin Range(added)
             THEN Append(added, h.ops[Head(uses)].user) ELSE added)

rauw_added(h, old_val, new_val) ==
    IF old_val = new_val THEN <<>> ELSE users_to_add(h, UseList(h, old_val), <<>>)

\* An instruction as the visit functions see it: its opcode, and per operand the
\* payload of a constant or the identity of anything else.
ValueShape(h, v) ==
    IF v # NULL /\ h.vals[v].is_constant THEN <<"const", h.vals[v].int_val>> ELSE <<"value", v>>
InstrShape(h, instr) ==
    <<h.instrs[instr].opcode,
      [k \in 1..Len(h.instrs[instr].operands) |->
          IF h.ops[h.instrs[instr].operands[k]].kind = "value"
          THEN ValueShape(h, OperandData(h, instr, k))
          ELSE <<"bb", OperandData(h, instr, k)>>]>>

\* replace_all_uses_with(wl, instr->dest, new_val) if there is a dest, then
\* erase_instruction(instr).
replace_and_erase(h, instr, dest, new_val) ==
    erase_instruction(IF dest # NULL THEN replace_all_uses_with(h, TRUE, dest, new_val) ELSE h,
                      instr)

RECURSIVE inst_combine_loop(_, _, _)
\* A re-queued instruction that the visit left as it found it is popped and
\* visited again with the same outcome, without end.
combine_visited(h, v, instr, wl, fuel) ==
    IF ~Ok(v.h) THEN v.h
    ELSE IF v.new_val # NULL
    THEN inst_combine_loop(
             replace_and_erase(v.h, instr, v.h.instrs[instr].dest, v.new_val),
             IF v.h.instrs[instr].dest # NULL
             THEN wl \o rauw_added(v.h, v.h.instrs[instr].dest, v.new_val) ELSE wl,
             fuel - 1)
    ELSE IF v.re_queue
    THEN IF InstrShape(v.h, instr) = InstrShape(h, instr) THEN Stop(v.h, "hang")
         ELSE inst_combine_loop(v.h, Append(wl, instr), fuel - 1)
    ELSE inst_combine_loop(v.h, wl, fuel - 1)

inst_combine_loop(h, wl, fuel) ==
    IF ~Ok(h) \/ wl = <<>> THEN h
    ELSE IF fuel = 0 THEN Stop(h, "fuel")
    ELSE IF h.instrs[Top(wl)].opcode = "unknown" THEN inst_combine_loop(h, Pop(wl), fuel - 1)
    ELSE combine_visited(h, visit(h, Top(wl)), Top(wl), Pop(wl), fuel)

\* The initial worklist: every instruction, block by block in reverse post-order.
RECURSIVE all_instructions(_, _)
all_instructions(h, blocks) ==
    IF blocks = <<>> THEN <<>>
    ELSE BlockInstrs(h, Head(blocks)) \o all_instructions(h, Tail(blocks))

run_inst_combine(h) ==
    IF ~Ok(h) \/ h.func.entry = NULL THEN h
    ELSE IF h.func.reverse_post_order = <<>> THEN AssertFails(h)
    ELSE inst_combine_loop(h, all_instructions(h, h.func.reverse_post_order),
                           8 * Len(h.instrs) + 8)

----------------------------------------------------------------------------
(* run_inst_combine on functions of one block and MaxCombined instructions *)

MaxCombined == 2

IntOpcodes == {"add", "sub", "mul", "sdiv", "srem"}
FloatOpcodes == {"fadd", "fsub", "fmul", "fdiv"}
\* The constants of the generated functions, as values 2..5; value 1 is the
\* argument x.
Literals == <<-1, 0, 1, 2>>
LiteralValues == 2..5

RECURSIVE with_literals(_, _, _)
with_literals(h, float, k) ==
    IF k > Len(Literals) THEN h
    ELSE with_literals(IF float THEN create_const_float(h, Fl(Literals[k]))
                       ELSE create_const_int(h, Literals[k]),
                       float, k + 1)

\* The operand pairs of the first instruction, and of a later one, which uses
\* the result prev of the instruction before it.
FirstOperands == ({1} \cup LiteralValues) \X ({1} \cup LiteralValues)
NextOperands(prev) ==
    {<<prev, prev>>} \cup {<<prev, v>> : v \in {1} \cup LiteralValues}
                     \cup {<<v, prev>> : v \in {1} \cup LiteralValues}

\* ret of the result of the last instruction.
with_ret_of_result(h) ==
    emit(h, 1, "ret", FALSE, <<V(h.instrs[Len(h.instrs)].dest)>>)

InitIC == InitSCFG

\* A function of one block: one arithmetic instruction on x and the literals.
GenerateIC ==
    /\ last.op = "init"
    /\ \E float \in BOOLEAN :
         \E opcode \in (IF float THEN FloatOpcodes ELSE IntOpcodes), ops \in FirstOperands :
            ir' = emit(with_literals(function_skeleton(1, 1), float, 1),
                       1, opcode, TRUE, <<V(ops[1]), V(ops[2])>>)
    /\ last' = [n |-> 1, op |-> "generate", before |-> EmptyHeap]
    /\ UNCHANGED <<build, exec>>

\* One more instruction of the same type, on the result of the last one.
ExtendIC ==
    /\ last.op = "generate"
    /\ Ok(ir)
    /\ last.n < MaxCombined
    /\ \E opcode \in (IF ir.instrs[1].opcode \in FloatOpcodes THEN FloatOpcodes ELSE IntOpcodes),
          ops \in NextOperands(ir.instrs[Len(ir.instrs)].dest) :
            ir' = emit(ir, 1, opcode, TRUE, <<V(ops[1]), V(ops[2])>>)
    /\ last' = [last EXCEPT !.n = @ + 1]
    /\ UNCHANGED <<build, exec>>

\* optimize_function: build_cfg, compute_dominators, run_inst_combine.
RunInstCombine ==
    /\ last.op = "generate"
    /\ Ok(ir)
    /\ ir' = run_inst_combine(compute_dominators(build_cfg(with_ret_of_result(ir))))
    /\ last' = [n |-> last.n, op |-> "run_inst_combine",
                before |-> compute_dominators(build_cfg(with_ret_of_result(ir)))]
    /\ UNCHANGED <<build, exec>>

NextIC == GenerateIC \/ ExtendIC \/ RunInstCombine

SpecIC == InitIC /\ [][NextIC]_vars

\* C15: run_inst_combine returns on every function: its worklist becomes empty.
C15_InstCombineTerminates == last.op = "run_inst_combine" => ir.status # "hang"

----------------------------------------------------------------------------
(* Function inlining (inliner.c) *)

\* The module holds two functions: main is h.func, and g, the function main
\* calls, is h.callee, a record of the same fields. Their blocks, instructions
\* and values share the tables; the blocks of g have parent G. The name of a
\* function, which shares the union of IRValue with int_val, is its number.
G == 2

INLINE_THRESHOLD == 80

with_callee(h, c) ==
    [vals |-> h.vals, ops |-> h.ops, instrs |-> h.instrs, bbs |-> h.bbs, func |-> h.func,
     builder |-> h.builder, status |-> h.status, erased |-> h.erased, callee |-> c]

FunctionBlocks(h, fn) == BlockChain(h, fn.blocks, Len(h.bbs) + 1)

find_function_in_module(h, name) ==
    IF name = F THEN h.func ELSE IF name = G THEN h.callee ELSE EmptyHeap.func

get_callee_from_call(h, call_instr) ==
    IF call_instr = NULL \/ h.instrs[call_instr].operands = <<>> THEN NULL
    ELSE OperandData(h, call_instr, 1)

RECURSIVE count_instructions(_, _)
count_instructions(h, blocks) ==
    IF blocks = <<>> THEN 0
    ELSE Len(BlockInstrs(h, Head(blocks))) + count_instructions(h, Tail(blocks))

\* call_stack holds the function whose calls are being collected.
should_inline_function(h, call_stack, name) ==
    /\ find_function_in_module(h, name).entry # NULL
    /\ name \notin Range(call_stack)
    /\ count_instructions(h, FunctionBlocks(h, find_function_in_module(h, name)))
          <= INLINE_THRESHOLD

link_basic_block_to_function(h, bb) ==
    IF ~Ok(h) \/ bb = NULL THEN h
    ELSE IF h.func.blocks # NULL
    THEN [h EXCEPT !.bbs[bb].next_in_func = h.func.blocks,
                   !.bbs[h.func.blocks].prev_in_func = bb,
                   !.func.blocks = bb,
                   !.func.entry = IF @ = NULL THEN bb ELSE @]
    ELSE [h EXCEPT !.bbs[bb].next_in_func = NULL,
                   !.func.blocks = bb,
                   !.func.entry = IF @ = NULL THEN bb ELSE @]

append_instruction_to_block(h, block, instr) ==
    IF ~Ok(h) \/ block = NULL \/ instr = NULL THEN h
    ELSE link_at_end(h, block, instr, h.bbs[block].tail)

RECURSIVE clone_operands(_, _, _)
clone_operands(h, new_instr, ops) ==
    IF ~Ok(h) \/ ops = <<>> THEN h
    ELSE clone_operands(add_operand(h, new_instr, h.ops[Head(ops)].kind, h.ops[Head(ops)].data),
                        new_instr, Tail(ops))

\* The clone is the last instruction of the table. Its operands are those of
\* instr, entered in the use lists of the values of instr; it has no dest.
clone_instruction(h, instr) ==
    IF ~Ok(h) THEN h
    ELSE clone_operands(
             [create_ir_instruction(h, h.instrs[instr].opcode)
                 EXCEPT !.instrs[Len(h.instrs) + 1].opcode_cond = h.instrs[instr].opcode_cond],
             Len(h.instrs) + 1, h.instrs[instr].operands)

\* t = [h, val_map, bb_map]: the heap and the value map, whose keys are values
\* (val_map) and blocks cast to values (bb_map).
\* Step A. value_map_put reads old_val->is_constant through the block pointer:
\* the first byte of the block, which is the low byte of its label pointer. The
\* blocks of unkeyed are those where it reads as true, which are not entered.
RECURSIVE map_blocks(_, _, _)
map_blocks(t, old_bbs, unkeyed) ==
    IF old_bbs = <<>> THEN t
    ELSE map_blocks(
             [t EXCEPT !.h = create_ir_basic_block(t.h),
                       !.bb_map = IF Head(old_bbs) \in unkeyed THEN @
                                  ELSE Append(@, <<Head(old_bbs), Len(t.h.bbs) + 1>>)],
             Tail(old_bbs), unkeyed)

\* Step B: arg_op walks the operands of the call along with the arguments.
RECURSIVE map_arguments(_, _, _, _)
map_arguments(t, args, call_instr, i) ==
    IF ~Ok(t.h) \/ i > Len(args) THEN t
    ELSE IF i + 1 > Len(t.h.instrs[call_instr].operands)
    THEN [t EXCEPT !.h = NullDeref(t.h)]                     \* arg_op is NULL
    ELSE map_arguments(
             [t EXCEPT !.val_map = value_map_put(t.h, @, args[i],
                                                 OperandData(t.h, call_instr, i + 1))],
             args, call_instr, i + 1)

\* new_instr->dest = ir_builder_create_reg(...): def_instr of the register is
\* left NULL.
clone_dest(t, old_dest, new_instr) ==
    IF ~Ok(t.h) \/ old_dest = NULL THEN t
    ELSE [t EXCEPT !.h = [ir_builder_create_reg(t.h)
                             EXCEPT !.instrs[new_instr].dest = Len(t.h.vals) + 1],
                   !.val_map = value_map_put(t.h, @, old_dest, Len(t.h.vals) + 1)]

clone_into(t, new_bb, old_instr) ==
    clone_dest([t EXCEPT !.h = append_instruction_to_block(clone_instruction(t.h, old_instr),
                                                           new_bb, Len(t.h.instrs) + 1)],
               t.h.instrs[old_instr].dest, Len(t.h.instrs) + 1)

RECURSIVE clone_block(_, _, _)
clone_block(t, new_bb, old_instrs) ==
    IF ~Ok(t.h) \/ old_instrs = <<>> THEN t
    ELSE clone_block(clone_into(t, new_bb, Head(old_instrs)), new_bb, Tail(old_instrs))

\* Step C-1.
RECURSIVE clone_blocks(_, _)
clone_blocks(t, old_bbs) ==
    IF ~Ok(t.h) \/ old_bbs = <<>> THEN t
    ELSE clone_blocks(clone_block(t, value_map_get(t.bb_map, Head(old_bbs)),
                                  BlockInstrs(t.h, Head(old_bbs))),
                      Tail(old_bbs))

remap_value(map, old_val) ==
    IF value_map_get(map, old_val) # NULL THEN value_map_get(map, old_val) ELSE old_val

\* op->data.value = remap_value(...), op->data.bb = remap_value(...): the data
\* are overwritten, the use lists are not touched.
remap_instructions(h, val_map, bb_map, instrs) ==
    [h EXCEPT !.ops = [o \in DOMAIN h.ops |->
                          IF h.ops[o].user \in instrs
                          THEN [h.ops[o] EXCEPT !.data = IF h.ops[o].kind = "value"
                                                         THEN remap_value(val_map, @)
                                                         ELSE remap_value(bb_map, @)]
                          ELSE h.ops[o]]]

\* Step C-2. new_bb->head of a block that is not in the map is read through NULL.
RECURSIVE remap_blocks(_, _, _, _)
remap_blocks(h, val_map, bb_map, old_bbs) ==
    IF ~Ok(h) \/ old_bbs = <<>> THEN h
    ELSE remap_blocks(
             IF value_map_get(bb_map, Head(old_bbs)) = NULL THEN NullDeref(h)
             ELSE remap_instructions(
                      h, val_map, bb_map,
                      Range(BlockInstrs(h, value_map_get(bb_map, Head(old_bbs))))),
             val_map, bb_map, Tail(old_bbs))

remap_clones(t, old_bbs) == [t EXCEPT !.h = remap_blocks(t.h, t.val_map, t.bb_map, old_bbs)]

clone_and_remap_function_body(h, call_instr, callee, unkeyed) ==
    remap_clones(
        clone_blocks(
            map_arguments(
                map_blocks([h |-> h, val_map |-> <<>>, bb_map |-> <<>>],
                           FunctionBlocks(h, callee), unkeyed),
                callee.args, call_instr, 1),
            FunctionBlocks(h, callee)),
        FunctionBlocks(h, callee))

RECURSIVE remove_from_predecessors(_, _, _)
remove_from_predecessors(h, succs, old_block) ==
    IF ~Ok(h) \/ succs = <<>> THEN h
    ELSE remove_from_predecessors(remove_predecessor(h, Head(succs), old_block),
                                  Tail(succs), old_block)

RECURSIVE hand_over_successors(_, _, _)
hand_over_successors(h, succs, new_block) ==
    IF ~Ok(h) \/ succs = <<>> THEN h
    ELSE hand_over_successors(
             add_predecessor(add_successor(h, new_block, Head(succs)), Head(succs), new_block),
             Tail(succs), new_block)

\* The CFG arrays after the split.
split_edges(h, old_block, new_block, old_succs) ==
    IF ~Ok(h) THEN h
    ELSE hand_over_successors(
             add_predecessor(
                 add_successor(
                     [remove_from_predecessors(h, old_succs, old_block)
                         EXCEPT !.bbs[old_block].successors = <<>>],
                     old_block, new_block),
                 new_block, old_block),
             old_succs, new_block)

\* The instructions after instr go to new_block; prev of the first one is left
\* as it was.
move_tail(h, instr, old_block, new_block, moved) ==
    [set_parents(h, moved, new_block)
        EXCEPT !.bbs[old_block].tail = instr,
               !.instrs[instr].next = NULL,
               !.bbs[new_block].head = Head(moved),
               !.bbs[new_block].tail = h.bbs[old_block].tail]

\* The new block is the last of the table.
split_block_after_instruction(h, instr) ==
    IF ~Ok(h) \/ instr = NULL \/ h.instrs[instr].parent = NULL THEN h
    ELSE IF h.instrs[instr].next = NULL
    THEN link_basic_block_to_function(create_ir_basic_block(h), Len(h.bbs) + 1)
    ELSE split_edges(
             ir_builder_create_br(
                 ir_builder_set_insertion_block_end(
                     move_tail(link_basic_block_to_function(create_ir_basic_block(h),
                                                            Len(h.bbs) + 1),
                               instr, h.instrs[instr].parent, Len(h.bbs) + 1,
                               InstrChain(h, h.instrs[instr].next, Len(h.instrs) + 1)),
                     h.instrs[instr].parent),
                 Len(h.bbs) + 1),
             h.instrs[instr].parent, Len(h.bbs) + 1,
             h.bbs[h.instrs[instr].parent].successors)

mark_instruction_for_removal(h, instr) ==
    IF ~Ok(h) \/ instr = NULL THEN h ELSE [h EXCEPT !.instrs[instr].opcode = "unknown"]

RECURSIVE erase_marked(_, _)
erase_marked(h, instrs) ==
    IF ~Ok(h) \/ instrs = <<>> THEN h
    ELSE erase_marked(IF h.instrs[Head(instrs)].opcode = "unknown"
                      THEN erase_instruction(h, Head(instrs)) ELSE h,
                      Tail(instrs))

cleanup_removed_instructions(h, block) ==
    IF ~Ok(h) \/ block = NULL THEN h ELSE erase_marked(h, BlockInstrs(h, block))

\* Step 4 for one cloned block that ends with ret.
ret_to_branch(h, val_map, ret_phi, new_bb, ret_instr, after_call_block) ==
    ir_builder_create_br(
        ir_builder_set_insertion_block_end(
            erase_instruction(
                IF ret_phi # NULL /\ h.instrs[ret_instr].operands # <<>>
                THEN ir_phi_add_incoming(h, ret_phi,
                                         remap_value(val_map, OperandData(h, ret_instr, 1)),
                                         new_bb)
                ELSE h,
                ret_instr),
            new_bb),
        after_call_block)

RECURSIVE rets_to_branches(_, _, _, _, _)
rets_to_branches(h, t, ret_phi, old_bbs, after_call_block) ==
    IF ~Ok(h) \/ old_bbs = <<>> THEN h
    ELSE rets_to_branches(
             IF value_map_get(t.bb_map, Head(old_bbs)) = NULL THEN NullDeref(h)
             ELSE IF h.bbs[value_map_get(t.bb_map, Head(old_bbs))].tail # NULL
                     /\ h.instrs[h.bbs[value_map_get(t.bb_map, Head(old_bbs))].tail].opcode = "ret"
             THEN ret_to_branch(h, t.val_map, ret_phi, value_map_get(t.bb_map, Head(old_bbs)),
                                h.bbs[value_map_get(t.bb_map, Head(old_bbs))].tail,
                                after_call_block)
             ELSE h,
             t, ret_phi, Tail(old_bbs), after_call_block)

\* Step 5.
replace_call(h, call_instr, call_block, ret_phi) ==
    cleanup_removed_instructions(
        mark_instruction_for_removal(
            IF ret_phi # NULL
            THEN replace_all_uses_with(h, FALSE, h.instrs[call_instr].dest, h.instrs[ret_phi].dest)
            ELSE h,
            call_instr),
        call_block)

\* Step 3: the PHI, if the call has a result; it is the last instruction of the
\* table.
with_ret_phi(h, after_call_block) ==
    ir_builder_create_phi(ir_builder_set_insertion_block_start(h, after_call_block))

connect_returns(h, t, call_instr, call_block, callee, after_call_block, ret_phi) ==
    replace_call(
        rets_to_branches(IF ret_phi # NULL THEN with_ret_phi(h, after_call_block) ELSE h,
                         t, ret_phi, FunctionBlocks(h, callee), after_call_block),
        call_instr, call_block, ret_phi)

connect_split(h, t, call_instr, call_block, callee, after_call_block) ==
    connect_returns(h, t, call_instr, call_block, callee, after_call_block,
                    IF Ok(h) /\ h.instrs[call_instr].dest # NULL THEN Len(h.instrs) + 1 ELSE NULL)

\* Steps 1 and 2, on the heap of t; after_call_block is the block the split
\* makes.
connect_cfg_after_inlining(t, call_instr, call_block, callee, after_call_block) ==
    IF ~Ok(t.h) THEN t.h
    ELSE connect_split(
             redirect_edge(split_block_after_instruction(t.h, call_instr),
                           call_block, after_call_block,
                           value_map_get(t.bb_map, callee.entry)),
             t, call_instr, call_block, callee, after_call_block)

callee_name(h, call_instr) ==
    IF get_callee_from_call(h, call_instr) # NULL
       /\ h.vals[get_callee_from_call(h, call_instr)].is_global
    THEN h.vals[get_callee_from_call(h, call_instr)].int_val
    ELSE NULL

inline_body(t, call_instr, callee) ==
    connect_cfg_after_inlining(t, call_instr, t.h.instrs[call_instr].parent, callee,
                               Len(t.h.bbs) + 1)

inline_call_site(h, call_instr, unkeyed) ==
    IF ~Ok(h) \/ callee_name(h, call_instr) = NULL
       \/ find_function_in_module(h, callee_name(h, call_instr)) = EmptyHeap.func
    THEN h
    ELSE inline_body(
             clone_and_remap_function_body(
                 ir_builder_init(h), call_instr,
                 find_function_in_module(h, callee_name(h, call_instr)), unkeyed),
             call_instr, find_function_in_module(h, callee_name(h, call_instr)))

----------------------------------------------------------------------------
(* The inliner on modules of main and a function g of GBlocks blocks *)

GBlocks == 3

\* Value 1 is @g, value 2 the argument of g, values 3 .. GBlocks + 2 the
\* constants 1 .. GBlocks. The blocks of g are 1 .. GBlocks.
RECURSIVE with_constants(_, _, _)
with_constants(h, k, n) ==
    IF k > n THEN h ELSE with_constants(create_const_int(h, k), k + 1, n)

\* Block b of g: ret of the constant b, or, if b is among rec, ret of the result
\* of g called on the argument; a branch on the argument otherwise.
RECURSIVE with_callee_bodies(_, _, _, _)
with_callee_bodies(h, terms, b, rec) ==
    IF ~Ok(h) \/ b > Len(terms) THEN h
    ELSE with_callee_bodies(
             IF terms[b][1] = "ret"
             THEN IF b \in rec
                  THEN with_ret_of_last(emit(h, b, "call", TRUE, <<V(1), V(2)>>), b, FALSE)
                  ELSE with_ret(h, b, 2 + b)
             ELSE with_terminator(h, b, terms[b], 2),
             terms, b + 1, rec)

callee_function(terms, rec) ==
    with_callee_bodies(
        with_constants(with_blocks(with_args(create_ir_value(EmptyHeap, "global", G), 1),
                                   Len(terms)),
                       1, Len(terms)),
        terms, 1, rec)

\* The function built so far becomes g; main is empty.
as_callee(h) ==
    with_callee([h EXCEPT !.func = EmptyHeap.func,
                          !.bbs = [b \in DOMAIN h.bbs |-> [h.bbs[b] EXCEPT !.parent = G]]],
                h.func)

\* The blocks of main, the first of them block first: linked in order.
RECURSIVE with_main_blocks(_, _, _)
with_main_blocks(h, first, n) ==
    IF n = 0 THEN h
    ELSE IF n = 1
    THEN [create_ir_basic_block(h)
             EXCEPT !.func.entry = first, !.func.blocks = first, !.func.tail = first,
                    !.func.block_count = 1]
    ELSE [create_ir_basic_block(with_main_blocks(h, first, n - 1))
             EXCEPT !.bbs[first + n - 1].prev_in_func = first + n - 2,
                    !.bbs[first + n - 2].next_in_func = first + n - 1,
                    !.func.tail = first + n - 1, !.func.block_count = @ + 1]

\* main: %r = call @g(1), then ret %r, in the same block or in the next.
main_function(h, first, apart) ==
    IF apart
    THEN emit(emit(emit(with_main_blocks(h, first, 2), first, "call", TRUE, <<V(1), V(3)>>),
                   first, "br", FALSE, <<B(first + 1)>>),
              first + 1, "ret", FALSE, <<V(Len(h.vals) + 1)>>)
    ELSE with_ret_of_last(emit(with_main_blocks(h, first, 1), first, "call", TRUE,
                               <<V(1), V(3)>>),
                          first, FALSE)

\* optimize_function has left each function with its CFG and dominators.
inline_module(terms, rec, apart) ==
    compute_dominators(
        build_cfg(
            main_function(as_callee(compute_dominators(build_cfg(callee_function(terms, rec)))),
                          Len(terms) + 1, apart)))

RetBlocks(terms) == {b \in 1..Len(terms) : terms[b][1] = "ret"}

TheCall(h) == h.bbs[h.func.entry].head

InitInline == InitSCFG

GenerateModule ==
    /\ last.op = "init"
    /\ \E terms \in ConnectedTerminators(GBlocks), apart \in BOOLEAN :
         \E rec \in SUBSET RetBlocks(terms) :
            /\ ir' = inline_module(terms, rec, apart)
            /\ last' = [n |-> 1, op |-> "generate", before |-> ir']
    /\ UNCHANGED <<build, exec>>

InlineCallSite ==
    /\ last.op = "generate"
    /\ Ok(ir)
    /\ \E unkeyed \in SUBSET (1..GBlocks) :
         ir' = inline_call_site(ir, TheCall(ir), unkeyed)
    /\ last' = [last EXCEPT !.n = 2, !.op = "inline_call_site"]
    /\ UNCHANGED <<build, exec>>

NextInline == GenerateModule \/ InlineCallSite

SpecInline == InitInline /\ [][NextInline]_vars

\* The blocks of g that end with ret, in the module handed over.
CalleeRets(h) ==
    {b \in Range(FunctionBlocks(h, h.callee)) :
        h.bbs[b].tail # NULL /\ h.instrs[h.bbs[b].tail].opcode = "ret"}

\* The operands that used the result of the call in the module handed over.
FormerUses == Range(UseList(last.before, last.before.instrs[TheCall(last.before)].dest))

\* The instructions that followed the call in its block.
AfterTheCall ==
    InstrChain(last.before, last.before.instrs[TheCall(last.before)].next,
               Len(last.before.instrs) + 1)

\* Block j of main is the join block of the inlined call: the block of the call
\* ends with a branch, j holds a PHI with one pair per ret of g, from blocks
\* that branch to j, followed by what followed the call.
IsJoinBlock(j) ==
    /\ j # last.before.instrs[TheCall(last.before)].parent
    /\ BlockInstrs(ir, j) # <<>>
    /\ ir.instrs[Head(BlockInstrs(ir, j))].opcode = "phi"
    /\ Tail(BlockInstrs(ir, j)) = AfterTheCall
    /\ Len(ir.instrs[Head(BlockInstrs(ir, j))].operands)
          = 2 * Cardinality(CalleeRets(last.before))
    /\ \A o \in FormerUses : ir.ops[o].data = ir.instrs[Head(BlockInstrs(ir, j))].dest

----------------------------------------------------------------------------
(* run_inliner *)

\* The functions of the module, in the order of module->functions: main, g.
ModuleFunctions == <<F, G>>

swap_functions(h) == [h EXCEPT !.func = h.callee, !.callee = h.func]

RECURSIVE calls_among(_, _, _)
calls_among(h, call_stack, instrs) ==
    IF instrs = <<>> THEN <<>>
    ELSE (IF h.instrs[Head(instrs)].opcode = "call"
             /\ callee_name(h, Head(instrs)) # NULL
             /\ should_inline_function(h, call_stack, callee_name(h, Head(instrs)))
          THEN <<Head(instrs)>> ELSE <<>>)
         \o calls_among(h, call_stack, Tail(instrs))

\* The calls of function name that qualify, block by block.
calls_of_function(h, name) ==
    IF find_function_in_module(h, name).entry = NULL THEN <<>>
    ELSE calls_among(h, <<name>>,
                     all_instructions(h, FunctionBlocks(h, find_function_in_module(h, name))))

RECURSIVE calls_to_inline(_, _)
calls_to_inline(h, functions) ==
    IF functions = <<>> THEN <<>>
    ELSE calls_of_function(h, Head(functions)) \o calls_to_inline(h, Tail(functions))

RECURSIVE inline_calls(_, _, _)
inline_calls(h, calls, unkeyed) ==
    IF ~Ok(h) \/ calls = <<>> THEN h
    ELSE inline_calls(inline_call_site(h, Head(calls), unkeyed), Tail(calls), unkeyed)

find_and_inline_calls(h, unkeyed) ==
    inline_calls(h, calls_to_inline(h, ModuleFunctions), unkeyed)

\* run_simplify_cfg on every function that has a body.
simplify_function(h, name) ==
    IF ~Ok(h) \/ find_function_in_module(h, name).entry = NULL THEN h
    ELSE IF name = F THEN run_simplify_cfg(h)
    ELSE [swap_functions(run_simplify_cfg(swap_functions(h))) EXCEPT !.builder = h.builder]

RECURSIVE simplify_functions(_, _)
simplify_functions(h, functions) ==
    IF functions = <<>> THEN h
    ELSE simplify_functions(simplify_function(h, Head(functions)), Tail(functions))

\* Rounds the fixed point iteration of run_inliner is followed for.
MaxRounds == 3

RECURSIVE inliner_rounds(_, _, _)
inliner_rounds(h, unkeyed, round) ==
    IF ~Ok(h) \/ calls_to_inline(h, ModuleFunctions) = <<>> THEN h
    ELSE IF round > MaxRounds THEN Stop(h, "fuel")
    ELSE inliner_rounds(simplify_functions(find_and_inline_calls(h, unkeyed), ModuleFunctions),
                        unkeyed, round + 1)

\* ir_builder_init(&ctx.builder, NULL): the assert on func, then func->module.
init_inliner_builder(h) ==
    NullDeref(AssertFails([h EXCEPT !.builder = [current_bb |-> NULL, insert_point |-> NULL]]))

run_inliner(h, unkeyed) ==
    IF ~Ok(h) \/ h.func.entry = NULL THEN h
    ELSE inliner_rounds(init_inliner_builder(h), unkeyed, 1)

RunInliner ==
    /\ last.op = "generate"
    /\ Ok(ir)
    /\ \E unkeyed \in SUBSET (1..GBlocks) :
         ir' = run_inliner(ir, unkeyed)
    /\ last' = [last EXCEPT !.n = 2, !.op = "run_inliner"]
    /\ UNCHANGED <<build, exec>>

NextInliner == GenerateModule \/ RunInliner

SpecInliner == InitInline /\ [][NextInliner]_vars

\* C16: run_inliner returns on every module, also when g calls itself: after
\* finitely many rounds no call qualifies any more and the loop is left.
C16_InlinerReturns == last.op = "run_inliner" => Ok(ir)

(***************************************************************************)
(* The pass schedule (ir_optimizer.c).  What a pass does to the IR is      *)
(* modelled with the pass; here a pass is its name and the bool it         *)
(* returns, and a run of the pipeline is the sequence of the passes it     *)
(* calls.                                                                  *)
(***************************************************************************)
MaxIterations == 2

ConfigFlags ==
    {"enable_mem2reg", "enable_cse", "enable_adce", "enable_sroa", "enable_licm",
     "enable_loop_unroll", "enable_sccp", "enable_tail_call_elim", "enable_inst_combine",
     "enable_simplify_cfg", "enable_ind_var_simplify", "enable_inliner"}

OptimizationConfigs ==
    {[flags |-> on, max_iterations |-> n] : on \in SUBSET ConfigFlags, n \in 1..MaxIterations}

\* if (config->flag) pass(func);
if_enabled(config, flag, pass) == IF flag \in config.flags THEN <<pass>> ELSE <<>>

analyses == <<"build_cfg", "compute_dominators">>

\* One round of the do-while loop of optimize_function.
scalar_passes(config) ==
    if_enabled(config, "enable_inst_combine", "run_inst_combine")
        \o if_enabled(config, "enable_sccp", "run_sccp")
        \o if_enabled(config, "enable_cse", "run_cse")
        \o if_enabled(config, "enable_adce", "run_adce")
        \o if_enabled(config, "enable_simplify_cfg", "run_simplify_cfg")

\* The do-while loop from round `iteration + 1` on; changed[i] is
\* changed_in_iteration at the end of round i.
RECURSIVE scalar_rounds(_, _, _)
scalar_rounds(config, changed, iteration) ==
    scalar_passes(config)
        \o (IF changed[iteration + 1] THEN analyses ELSE <<>>)
        \o (IF changed[iteration + 1] /\ iteration + 1 < config.max_iterations
            THEN scalar_rounds(config, changed, iteration + 1)
            ELSE <<>>)

\* if (run_inst_combine(func) || run_adce(func) || run_simplify_cfg(func)):
\* `sweep` is how many of the three are called, the earlier ones returning false.
cleanup_sweep(sweep) == SubSeq(<<"run_inst_combine", "run_adce", "run_simplify_cfg">>, 1, sweep)

loop_passes(config, sweep) ==
    if_enabled(config, "enable_licm", "run_licm")
        \o if_enabled(config, "enable_ind_var_simplify", "run_ind_var_simplify")
        \o if_enabled(config, "enable_loop_unroll", "run_loop_unroll")
        \o cleanup_sweep(sweep)

\* The passes optimize_function calls, in order; `loops` is whether find_loops
\* leaves func->top_level_loops non-NULL.
optimize_function(config, changed, loops, sweep) ==
    analyses
        \o if_enabled(config, "enable_sroa", "run_sroa")
        \o if_enabled(config, "enable_mem2reg", "run_mem2reg")
        \o scalar_rounds(config, changed, 0)
        \o <<"find_loops">>
        \o (IF loops THEN loop_passes(config, sweep) ELSE <<>>)

\* A round can report a change only if it ran a pass.
ChangedResults(config) ==
    IF scalar_passes(config) = <<>> THEN {[i \in 1..MaxIterations |-> FALSE]}
    ELSE [1..MaxIterations -> BOOLEAN]

\* The flag that stands for a pass; the analyses have none.
FlagOf(pass) ==
    CASE pass = "run_sroa" -> "enable_sroa"
      [] pass = "run_mem2reg" -> "enable_mem2reg"
      [] pass = "run_inst_combine" -> "enable_inst_combine"
      [] pass = "run_sccp" -> "enable_sccp"
      [] pass = "run_cse" -> "enable_cse"
      [] pass = "run_adce" -> "enable_adce"
      [] pass = "run_simplify_cfg" -> "enable_simplify_cfg"
      [] pass = "run_licm" -> "enable_licm"
      [] pass = "run_ind_var_simplify" -> "enable_ind_var_simplify"
      [] pass = "run_loop_unroll" -> "enable_loop_unroll"
      [] pass = "run_inliner" -> "enable_inliner"
      [] pass = "run_tail_call_elim" -> "enable_tail_call_elim"
      [] OTHER -> "none"

(***************************************************************************)
(* run_optimization_pipeline_with_config on a module of the functions of   *)
(* ModuleFunctions, one step per call it makes on a function or on the     *)
(* module.  exec.ran holds the passes the last step called.                *)
(***************************************************************************)
InitPipeline ==
    /\ ir = EmptyHeap
    /\ build = [ndebug |-> TRUE, nullderef |-> "proceed"]
    /\ last = [n |-> 0, op |-> "init", before |-> EmptyHeap]
    /\ \E config \in OptimizationConfigs :
          exec = [config |-> config, phase |-> "optimize", func |-> 1, ran |-> <<>>]

\* for (func = module->functions; func; func = func->next) optimize_function(func, config);
\* in phase 1, and again after an inliner that changed something.
OptimizeFunction ==
    /\ exec.phase \in {"optimize", "reoptimize"}
    /\ \E changed \in ChangedResults(exec.config), loops \in BOOLEAN, sweep \in 1..3 :
          exec' = [exec EXCEPT
                     !.ran = optimize_function(exec.config, changed, loops, sweep),
                     !.func = IF exec.func < Len(ModuleFunctions) THEN exec.func + 1 ELSE 1,
                     !.phase = IF exec.func < Len(ModuleFunctions) THEN @
                               ELSE IF @ = "optimize" THEN "inline" ELSE "tail_calls"]
    /\ last' = [last EXCEPT !.n = @ + 1, !.op = "optimize_function"]
    /\ UNCHANGED <<ir, build>>

\* if (config->enable_inliner) if (run_inliner(module->functions)) ...
RunInlinerPhase ==
    /\ exec.phase = "inline"
    /\ \E changed \in BOOLEAN :
          exec' = [exec EXCEPT
                     !.ran = if_enabled(exec.config, "enable_inliner", "run_inliner"),
                     !.phase = IF "enable_inliner" \in exec.config.flags /\ changed
                               THEN "reoptimize" ELSE "tail_calls"]
    /\ last' = [last EXCEPT !.n = @ + 1, !.op = "run_inliner"]
    /\ UNCHANGED <<ir, build>>

\* if (config->enable_tail_call_elim) for (func ...) run_tail_call_elim(func);
RunTailCallElimPhase ==
    /\ exec.phase = "tail_calls"
    /\ exec' = [exec EXCEPT
                  !.ran = IF "enable_tail_call_elim" \in exec.config.flags
                          THEN [f \in 1..Len(ModuleFunctions) |-> "run_tail_call_elim"]
                          ELSE <<>>,
                  !.phase = "done"]
    /\ last' = [last EXCEPT !.n = @ + 1, !.op = "run_tail_call_elim"]
    /\ UNCHANGED <<ir, build>>

NextPipeline == OptimizeFunction \/ RunInlinerPhase \/ RunTailCallElimPhase

SpecPipeline == InitPipeline /\ [][NextPipeline]_vars

\* C18: the configuration decides which passes run: no step of the pipeline
\* calls a pass whose enable flag is false, in the first passes, the scalar
\* rounds, the loop passes or the cleanup sweep after them.
C18_DisabledPassNeverRuns ==
    \A i \in 1..Len(exec.ran) :
        FlagOf(exec.ran[i]) = "none" \/ FlagOf(exec.ran[i]) \in exec.config.flags

(***************************************************************************)
(* Induction variable simplification (ind_var_simplify.c).  c is the       *)
(* record of find_loops: the heap and the loops of the function, with      *)
(* `changed` for what the pass returns.                                    *)
(***************************************************************************)

\* An IRValue field read through a pointer to something that is no IRValue:
\* the read traps, or yields memory that decides nothing further on.
WildRead(h) == IF h.status = "ok" /\ build.nullderef = "segv" THEN Stop(h, "segv") ELSE h

get_loop_latch(loop) == IF Len(loop.back_edges) # 1 THEN NULL ELSE loop.back_edges[1]

\* is_loop_invariant of ind_var_simplify.c: a constant, an argument, or a
\* value defined outside the loop.
iv_is_loop_invariant(h, loop, value) ==
    \/ h.vals[value].is_constant
    \/ h.vals[value].def_instr = NULL
    \/ h.bbs[h.instrs[h.vals[value].def_instr].parent].post_order_id \notin loop.loop_blocks_bs

\* phi [init, preheader], [step, latch] in either order, init and step invariant.
IsBasicIV(h, loop, instr) ==
    /\ h.instrs[instr].opcode = "phi"
    /\ h.instrs[instr].dest # NULL
    /\ Len(h.instrs[instr].operands) = 4
    /\ \A k \in 1..4 : h.ops[h.instrs[instr].operands[k]].kind = (IF k % 2 = 1 THEN "value" ELSE "bb")
    /\ loop.preheader # NULL
    /\ get_loop_latch(loop) # NULL
    /\ \/ OperandData(h, instr, 2) = loop.preheader /\ OperandData(h, instr, 4) = get_loop_latch(loop)
       \/ OperandData(h, instr, 2) = get_loop_latch(loop) /\ OperandData(h, instr, 4) = loop.preheader
    /\ iv_is_loop_invariant(h, loop, OperandData(h, instr, 1))
    /\ iv_is_loop_invariant(h, loop, OperandData(h, instr, 3))

\* The value that comes from block `from`.
incoming_from(h, instr, from) ==
    IF OperandData(h, instr, 2) = from THEN OperandData(h, instr, 1) ELSE OperandData(h, instr, 3)

\* s = [h, biv_list]. is_basic_iv fills an IVInfo: biv is the BasicInductionVar
\* it allocates, scale and offset are the constants 1 and 0 it creates.
is_basic_iv(s, loop, instr) ==
    IF ~IsBasicIV(s.h, loop, instr) THEN s
    ELSE [h |-> create_ir_value(create_ir_value(s.h, "const", 1), "const", 0),
          biv_list |-> Append(s.biv_list,
                              [biv |-> [phi |-> instr,
                                        initial_value |->
                                            IF OperandData(s.h, instr, 2) = loop.preheader
                                               /\ OperandData(s.h, instr, 4) = get_loop_latch(loop)
                                            THEN OperandData(s.h, instr, 1)
                                            ELSE OperandData(s.h, instr, 3),
                                        step |->
                                            IF OperandData(s.h, instr, 2) = loop.preheader
                                               /\ OperandData(s.h, instr, 4) = get_loop_latch(loop)
                                            THEN OperandData(s.h, instr, 3)
                                            ELSE OperandData(s.h, instr, 1),
                                        back_edge_block |-> get_loop_latch(loop)],
                               scale |-> Len(s.h.vals) + 1,
                               offset |-> Len(s.h.vals) + 2])]

max_bivs == 16

\* find_basic_ivs hands &ctx->biv_list[n], a BasicInductionVar, to is_basic_iv
\* as an IVInfo: the three fields of biv_list[n] hold what is_basic_iv wrote,
\* phi the pointer to the BasicInductionVar, initial_value the scale, step the
\* offset.
RECURSIVE find_basic_ivs_among(_, _, _)
find_basic_ivs_among(s, loop, phis) ==
    IF phis = <<>> \/ Len(s.biv_list) >= max_bivs THEN s
    ELSE find_basic_ivs_among(is_basic_iv(s, loop, Head(phis)), loop, Tail(phis))

find_basic_ivs(h, loop) ==
    find_basic_ivs_among([h |-> h, biv_list |-> <<>>], loop, BlockPhis(h, loop.header))

\* ctx->biv_list[i].phi->dest: phi points to a BasicInductionVar, and dest is
\* the third pointer-sized field of an IRInstruction (behind opcode and
\* opcode_cond), as step is of a BasicInductionVar.
biv_phi_dest(biv_list, i) == biv_list[i].biv.step

\* The IVMap, as a function from the keys to [biv, scale, offset]; biv is a
\* place in biv_list, or NULL.
iv_map_has(map, key) == key \in DOMAIN map

iv_map_put(map, key, value) ==
    [k \in DOMAIN map \cup {key} |-> IF k = key THEN value ELSE map[k]]

get_bottom_iv_info == [biv |-> NULL, scale |-> NULL, offset |-> NULL]

RECURSIVE get_instructions_in_loop_topo_order(_, _)
get_instructions_in_loop_topo_order(h, loop) ==
    IF loop.blocks = <<>> THEN <<>>
    ELSE BlockInstrs(h, Head(loop.blocks))
             \o get_instructions_in_loop_topo_order(h, [loop EXCEPT !.blocks = Tail(@)])

\* t = [h, map]. The invariant operands of the instructions of the loop get
\* i*0 + value. is_loop_invariant reads the operand as a value also where it
\* is a block.
RECURSIVE put_invariant_operands(_, _, _, _)
put_invariant_operands(t, loop, ops, zero) ==
    IF ~Ok(t.h) \/ ops = <<>> THEN t
    ELSE put_invariant_operands(
             IF t.h.ops[Head(ops)].kind # "value" THEN [t EXCEPT !.h = WildRead(@)]
             ELSE IF iv_is_loop_invariant(t.h, loop, t.h.ops[Head(ops)].data)
             THEN [t EXCEPT !.map = iv_map_put(@, t.h.ops[Head(ops)].data,
                                               [biv |-> NULL, scale |-> zero,
                                                offset |-> t.h.ops[Head(ops)].data])]
             ELSE t,
             loop, Tail(ops), zero)

RECURSIVE put_invariants(_, _, _, _)
put_invariants(t, loop, topo_list, zero) ==
    IF ~Ok(t.h) \/ topo_list = <<>> THEN t
    ELSE put_invariants(put_invariant_operands(t, loop, t.h.instrs[Head(topo_list)].operands,
                                               zero),
                        loop, Tail(topo_list), zero)

RECURSIVE put_basic_ivs(_, _, _, _, _)
put_basic_ivs(map, biv_list, i, zero, one) ==
    IF i > Len(biv_list) THEN map
    ELSE put_basic_ivs(iv_map_put(map, biv_phi_dest(biv_list, i),
                                  [biv |-> i, scale |-> one, offset |-> zero]),
                       biv_list, i + 1, zero, one)

\* The computation in the preheader (the terminator apart) that has the
\* opcode and the operands, or the operands swapped for add and mul; 0 if none.
same_computation(h, instr, op, lhs, rhs) ==
    /\ h.instrs[instr].opcode = op
    /\ Len(h.instrs[instr].operands) = 2
    /\ \/ OperandData(h, instr, 1) = lhs /\ OperandData(h, instr, 2) = rhs
       \/ op \in {"add", "mul"} /\ OperandData(h, instr, 1) = rhs /\ OperandData(h, instr, 2) = lhs

RECURSIVE find_computation(_, _, _, _, _)
find_computation(h, instrs, op, lhs, rhs) ==
    IF Len(instrs) <= 1 THEN NULL
    ELSE IF same_computation(h, Head(instrs), op, lhs, rhs) THEN Head(instrs)
    ELSE find_computation(h, Tail(instrs), op, lhs, rhs)

\* r = [h, val]: the value of the computation, made before the terminator of
\* the preheader if the preheader has none like it.
computation_in_preheader(h, found, preheader, op, lhs, rhs) ==
    IF found # NULL THEN [h |-> h, val |-> h.instrs[found].dest]
    ELSE [h |-> create_binary_op(ir_builder_set_insertion_point(h, h.bbs[preheader].tail),
                                 op, lhs, rhs),
          val |-> Len(h.vals) + 1]

get_or_create_computation_in_preheader(h, loop, op, lhs, rhs) ==
    computation_in_preheader(h, find_computation(h, BlockInstrs(h, loop.preheader), op, lhs, rhs),
                             loop.preheader, op, lhs, rhs)

\* r = [h, ok, info] with scale and offset from two computations.
offset_computed(scale, r, biv) ==
    [h |-> r.h, ok |-> TRUE, info |-> [biv |-> biv, scale |-> scale.val, offset |-> r.val]]

scale_computed(scale, loop, op, ol, orr, biv) ==
    offset_computed(scale, get_or_create_computation_in_preheader(scale.h, loop, op, ol, orr), biv)

scale_and_offset(h, loop, op, sl, sr, ol, orr, biv) ==
    scale_computed(get_or_create_computation_in_preheader(h, loop, op, sl, sr),
                   loop, op, ol, orr, biv)

offset_only(h, loop, op, scale, ol, orr, biv) ==
    offset_computed([h |-> h, val |-> scale],
                    get_or_create_computation_in_preheader(h, loop, op, ol, orr), biv)

bottom_info(h) == [h |-> h, ok |-> TRUE, info |-> get_bottom_iv_info]

no_info(h) == [h |-> h, ok |-> FALSE, info |-> get_bottom_iv_info]

\* j = (i*A + B) op C with C invariant.
iv_with_invariant(h, loop, opcode, iv_info, invariant_val) ==
    IF opcode \in {"add", "sub"}
    THEN offset_only(h, loop, opcode, iv_info.scale, iv_info.offset, invariant_val, iv_info.biv)
    ELSE IF opcode = "mul"
    THEN scale_and_offset(h, loop, "mul", iv_info.scale, invariant_val,
                          iv_info.offset, invariant_val, iv_info.biv)
    ELSE bottom_info(h)

\* c - (i*A + B) = i*(0 - A) + (c - B), with a new constant 0.
invariant_minus_iv(h, loop, iv_info, invariant_val) ==
    scale_and_offset(create_ir_value(h, "const", 0), loop, "sub",
                     Len(h.vals) + 1, iv_info.scale, invariant_val, iv_info.offset, iv_info.biv)

iv_info_of(h, loop, opcode, val1, info1, val2, info2) ==
    IF info1.biv # NULL /\ info1.biv = info2.biv
    THEN IF opcode \in {"add", "sub"}
         THEN scale_and_offset(h, loop, opcode, info1.scale, info2.scale,
                               info1.offset, info2.offset, info1.biv)
         ELSE bottom_info(h)
    ELSE IF info1.biv # NULL /\ info2.biv = NULL
    THEN iv_with_invariant(h, loop, opcode, info1, val2)
    ELSE IF info1.biv = NULL /\ info2.biv # NULL
    THEN IF opcode = "sub" THEN invariant_minus_iv(h, loop, info2, val1)
         ELSE iv_with_invariant(h, loop, opcode, info2, val1)
    ELSE bottom_info(h)

compute_iv_info_for_instr(t, loop, instr) ==
    IF t.h.instrs[instr].opcode = "phi" \/ Len(t.h.instrs[instr].operands) # 2
       \/ ~iv_map_has(t.map, OperandData(t.h, instr, 1))
       \/ ~iv_map_has(t.map, OperandData(t.h, instr, 2))
    THEN no_info(t.h)
    ELSE iv_info_of(t.h, loop, t.h.instrs[instr].opcode,
                    OperandData(t.h, instr, 1), t.map[OperandData(t.h, instr, 1)],
                    OperandData(t.h, instr, 2), t.map[OperandData(t.h, instr, 2)])

\* t = [h, map, changed]: the information of the instruction is put if it is
\* new or differs.
update_iv_info(t, dest, r) ==
    IF ~r.ok THEN [t EXCEPT !.h = r.h]
    ELSE IF iv_map_has(t.map, dest) /\ t.map[dest] = r.info THEN [t EXCEPT !.h = r.h]
    ELSE [h |-> r.h, map |-> iv_map_put(t.map, dest, r.info), changed |-> TRUE]

RECURSIVE analysis_round(_, _, _)
analysis_round(t, loop, topo_list) ==
    IF ~Ok(t.h) \/ topo_list = <<>> THEN t
    ELSE analysis_round(
             IF t.h.instrs[Head(topo_list)].dest = NULL THEN t
             ELSE update_iv_info(t, t.h.instrs[Head(topo_list)].dest,
                                 compute_iv_info_for_instr(t, loop, Head(topo_list))),
             loop, Tail(topo_list))

\* while (changed): a round that changes nothing ends the analysis.
RECURSIVE analysis_rounds(_, _, _, _)
analysis_rounds(t, loop, topo_list, fuel) ==
    IF ~Ok(t.h) \/ ~t.changed THEN t
    ELSE IF fuel = 0 THEN [t EXCEPT !.h = Stop(@, "fuel")]
    ELSE analysis_rounds(analysis_round([t EXCEPT !.changed = FALSE], loop, topo_list),
                         loop, topo_list, fuel - 1)

\* The constants 0 and 1 are the last two values of h.
analyze_from(h, loop, biv_list, topo_list) ==
    analysis_rounds(
        [put_invariants([h |-> h, map |-> <<>>], loop, topo_list, Len(h.vals) - 1)
            EXCEPT !.map = put_basic_ivs(@, biv_list, 1, Len(h.vals) - 1, Len(h.vals))]
            @@ [changed |-> TRUE],
        loop, topo_list, Fuel(h))

analyze_derived_ivs(h, loop, biv_list) ==
    analyze_from(create_ir_value(create_ir_value(h, "const", 0), "const", 1), loop, biv_list,
                 get_instructions_in_loop_topo_order(h, loop))

\* The entries of the map with a BIV whose key is the result of a mul. (The
\* order of the buckets is the order of the addresses: here, the later value
\* first.)
RECURSIVE reducible_divs_from(_, _, _)
reducible_divs_from(h, map, v) ==
    IF v = 0 THEN <<>>
    ELSE IF iv_map_has(map, v) /\ map[v].biv # NULL /\ h.vals[v].def_instr # NULL
            /\ h.instrs[h.vals[v].def_instr].opcode = "mul"
    THEN <<v>> \o reducible_divs_from(h, map, v - 1)
    ELSE reducible_divs_from(h, map, v - 1)

\* The values made by the five instructions of one reduction, in their order.
new_iv_connected(h, div_val, loop, new_phi, new_init, new_update) ==
    replace_all_uses_with(
        ir_phi_add_incoming(
            ir_phi_add_incoming(h, new_phi, new_init, loop.preheader),
            new_phi, new_update, get_loop_latch(loop)),
        FALSE, div_val, h.instrs[new_phi].dest)

new_iv_update(h, div_val, loop, new_phi, new_init, new_step) ==
    new_iv_connected(
        create_binary_op(ir_builder_set_insertion_point(h, h.bbs[get_loop_latch(loop)].tail),
                         "add", h.instrs[new_phi].dest, new_step),
        div_val, loop, new_phi, new_init, Len(h.vals) + 1)

new_iv_phi(h, div_val, loop, new_init, new_step) ==
    new_iv_update(ir_builder_create_phi(ir_builder_set_insertion_block_start(h, loop.header)),
                  div_val, loop, Len(h.instrs) + 1, new_init, new_step)

new_iv_step(h, div_val, loop, info, biv, new_init) ==
    new_iv_phi(create_binary_op(h, "mul", biv.offset, info.scale),
               div_val, loop, new_init, Len(h.vals) + 1)

new_iv_init(h, div_val, loop, info, biv, init_mul) ==
    new_iv_step(create_binary_op(h, "add", init_mul, info.offset),
                div_val, loop, info, biv, Len(h.vals) + 1)

\* info->biv points into biv_list: its initial_value is the scale and its step
\* the offset that is_basic_iv wrote there.
reduce_strength(h, div_val, loop, info, biv) ==
    new_iv_init(create_binary_op(ir_builder_set_insertion_point(h, h.bbs[loop.preheader].tail),
                                 "mul", biv.scale, info.scale),
                div_val, loop, info, biv, Len(h.vals) + 1)

RECURSIVE reduce_divs(_, _, _, _, _)
reduce_divs(h, loop, map, biv_list, divs) ==
    IF ~Ok(h) \/ divs = <<>> THEN h
    ELSE reduce_divs(reduce_strength(h, Head(divs), loop, map[Head(divs)],
                                     biv_list[map[Head(divs)].biv]),
                     loop, map, biv_list, Tail(divs))

\* r = [h, changed]
reduce_strength_of_divs(h, loop, map, biv_list) ==
    [h |-> reduce_divs(h, loop, map, biv_list, reducible_divs_from(h, map, Len(h.vals))),
     changed |-> reducible_divs_from(h, map, Len(h.vals)) # <<>>]

reduce_analysed(t, loop, biv_list) ==
    IF ~Ok(t.h) THEN [h |-> t.h, changed |-> FALSE]
    ELSE reduce_strength_of_divs(t.h, loop, t.map, biv_list)

simplify_with_bivs(s, loop) ==
    IF s.biv_list = <<>> THEN [h |-> s.h, changed |-> FALSE]
    ELSE reduce_analysed(analyze_derived_ivs(s.h, loop, s.biv_list), loop, s.biv_list)

simplify_ivs_in_loop(h, loop) == simplify_with_bivs(find_basic_ivs(h, loop), loop)

simplified(c, r) == [c EXCEPT !.h = r.h, !.changed = c.changed \/ r.changed]

\* Only a loop with a preheader and one back edge is looked at, and only then
\* the loops inside it.
RECURSIVE simplify_loop_recursively(_, _)
RECURSIVE simplify_loops(_, _)
simplify_loops(c, ks) ==
    IF ks = <<>> THEN c ELSE simplify_loops(simplify_loop_recursively(c, Head(ks)), Tail(ks))

simplify_after_sub_loops(c, k) ==
    IF ~Ok(c.h) THEN c ELSE simplified(c, simplify_ivs_in_loop(c.h, c.loops[k]))

simplify_loop_recursively(c, k) ==
    IF ~Ok(c.h) \/ c.loops[k].preheader = NULL \/ Len(c.loops[k].back_edges) # 1 THEN c
    ELSE simplify_after_sub_loops(simplify_loops(c, c.loops[k].sub_loops), k)

\* c.changed is what run_ind_var_simplify returns.
run_ind_var_simplify(c) ==
    IF ~Ok(c.h) \/ c.top_level_loops = <<>> THEN [c EXCEPT !.changed = FALSE]
    ELSE simplify_loops([c EXCEPT !.changed = FALSE, !.h = ir_builder_init(@)],
                        c.top_level_loops)

(***************************************************************************)
(* The loop passes on functions of IVBlocks blocks.  exec holds the loops  *)
(* of the function, func->top_level_loops and what hangs from it, as the   *)
(* last analysis or pass left them; last.changed is what the pass          *)
(* returned.                                                               *)
(***************************************************************************)
IVBlocks == 3

\* %i = phi [1, p] for the predecessors p other than the block, [%a, b] for the
\* block itself.
RECURSIVE iv_phi_pairs(_, _)
iv_phi_pairs(preds, b) ==
    IF preds = <<>> THEN <<>>
    ELSE <<V(IF Head(preds) = b THEN 1 ELSE 2), B(Head(preds))>> \o iv_phi_pairs(Tail(preds), b)

\* Block `at` holds %i = phi ..., %t = op %a, 1 and %u = sdiv %t, %i. Value 1
\* is the argument, value 2 the constant 1.
RECURSIVE with_iv_bodies(_, _, _, _, _)
with_iv_bodies(h, terms, b, at, op) ==
    IF ~Ok(h) \/ b > Len(terms) THEN h
    ELSE with_iv_bodies(
             with_terminator(
                 IF b = at
                 THEN emit(emit(emit(h, b, "phi", TRUE, iv_phi_pairs(TermPreds(terms, b), b)),
                                b, op, TRUE, <<V(1), V(2)>>),
                           b, "sdiv", TRUE, <<V(4), V(3)>>)
                 ELSE h,
                 b, terms[b], 1),
             terms, b + 1, at, op)

iv_function(terms, at, op) ==
    with_iv_bodies(create_ir_value(function_skeleton(1, Len(terms)), "const", 1),
                   terms, 1, at, op)

NoLoops == [loops |-> <<>>, top_level_loops |-> <<>>]

with_loops(h) == [h |-> h, loops |-> exec.loops, top_level_loops |-> exec.top_level_loops,
                  changed |-> FALSE]

InitIV ==
    /\ ir = EmptyHeap
    /\ build \in Builds
    /\ last = [n |-> 0, op |-> "init", before |-> EmptyHeap, changed |-> FALSE]
    /\ exec = NoLoops

\* optimize_function hands its passes a function with its CFG and its
\* dominators computed.
GenerateIV ==
    /\ last.op = "init"
    /\ \E terms \in ConnectedTerminators(IVBlocks), at \in 2..IVBlocks,
          op \in {"add", "sub", "mul"} :
         /\ ir' = compute_dominators(build_cfg(iv_function(terms, at, op)))
         /\ last' = [n |-> 1, op |-> "generate", before |-> ir', changed |-> FALSE]
    /\ UNCHANGED <<build, exec>>

after_pass(c, op) ==
    /\ ir' = c.h
    /\ exec' = [loops |-> c.loops, top_level_loops |-> c.top_level_loops]
    /\ last' = [n |-> last.n + 1, op |-> op, before |-> ir, changed |-> c.changed]
    /\ UNCHANGED build

\* find_loops(func) of optimize_function.
FindLoops ==
    /\ Ok(ir)
    /\ last.op = "generate"
    /\ after_pass(find_loops(ir), "find_loops")

\* The loops run_licm leaves in the function, with what it returns.
licm_result(c) ==
    IF c.top_level_loops = <<>> THEN c ELSE process_loops(c, c.top_level_loops)

licm_loops(h) ==
    IF ~Ok(h) \/ h.func.entry = NULL
    THEN [h |-> h, loops |-> exec.loops, top_level_loops |-> exec.top_level_loops,
          changed |-> FALSE]
    ELSE IF find_loops(h).top_level_loops = <<>> THEN find_loops(h)
    ELSE licm_result(loops_for_licm(ensure_all_loop_preheaders(find_loops(h))))

\* if (config->enable_licm) run_licm(func);
RunLicmOnLoops ==
    /\ Ok(ir)
    /\ last.op = "find_loops"
    /\ after_pass(licm_loops(ir), "run_licm")

\* if (config->enable_ind_var_simplify) run_ind_var_simplify(func);
RunIndVarSimplify ==
    /\ Ok(ir)
    /\ last.op \in {"find_loops", "run_licm"}
    /\ after_pass(run_ind_var_simplify(with_loops(ir)), "run_ind_var_simplify")

NextIV == GenerateIV \/ FindLoops \/ RunLicmOnLoops \/ RunIndVarSimplify

SpecIV == InitIV /\ [][NextIV]_vars

\* The block list, the instruction lists, the operands and the use lists of b
\* are those of a; b may hold values that a has not.
SameIR(a, b) ==
    /\ a.instrs = b.instrs
    /\ a.ops = b.ops
    /\ a.bbs = b.bbs
    /\ a.func = b.func
    /\ Len(b.vals) >= Len(a.vals)
    /\ SubSeq(b.vals, 1, Len(a.vals)) = a.vals

----------------------------------------------------------------------------
(* Promotion of allocas to registers (mem2reg.c) *)

\* A use of the address that leaves the alloca promotable: by a load, or as the
\* second operand of a store.
is_promotable_use(h, use) ==
    LET user == h.ops[use].user IN
    \/ h.instrs[user].opcode = "load"
    \/ /\ h.instrs[user].opcode = "store"
       /\ Len(h.instrs[user].operands) >= 2
       /\ h.instrs[user].operands[2] = use

\* The allocas here are of scalar type.
is_alloca_promotable(h, alloca_instr) ==
    \A use \in Range(UseList(h, h.instrs[alloca_instr].dest)) : is_promotable_use(h, use)

\* The allocas at the head of the entry block.
RECURSIVE leading_allocas(_, _)
leading_allocas(h, instrs) ==
    IF instrs = <<>> \/ h.instrs[Head(instrs)].opcode # "alloca" THEN <<>>
    ELSE <<Head(instrs)>> \o leading_allocas(h, Tail(instrs))

\* The post_order_id of the blocks that store to the alloca.
defining_blocks(h, alloca_instr) ==
    {h.bbs[h.instrs[h.ops[use].user].parent].post_order_id :
        use \in {u \in Range(UseList(h, h.instrs[alloca_instr].dest)) :
                    h.instrs[h.ops[u].user].opcode = "store"}}

\* ctx->promotables: [alloca_instr, alloca_val, defining_blocks, phi_placement_blocks].
analyze_allocas(h) ==
    LET promotable_list == SelectSeq(leading_allocas(h, BlockInstrs(h, h.func.entry)),
                                     LAMBDA a : is_alloca_promotable(h, a))
    IN [i \in 1..Len(promotable_list) |->
           [alloca_instr |-> promotable_list[i],
            alloca_val |-> h.instrs[promotable_list[i]].dest,
            defining_blocks |-> defining_blocks(h, promotable_list[i]),
            phi_placement_blocks |-> {}]]

\* ctx->func->reverse_post_order[block_id], C index block_id.
rpo_at(h, block_id) == h.func.reverse_post_order[block_id + 1]

\* The worklist loop of compute_phi_placement: worklist is a set of blocks still
\* to pop, placed the post_order_ids that have a PHI so far.  The result does not
\* depend on the order of the pops.
RECURSIVE phi_placement_loop(_, _, _, _)
phi_placement_loop(h, defining, worklist, placed) ==
    IF worklist = {} THEN placed
    ELSE LET block == CHOOSE b \in worklist : TRUE
             frontier == {h.bbs[f].post_order_id : f \in Range(h.bbs[block].dom_frontier)}
             fresh == frontier \ placed
         IN phi_placement_loop(h, defining,
                (worklist \ {block})
                    \cup {f \in Range(h.bbs[block].dom_frontier) :
                             h.bbs[f].post_order_id \in fresh \ defining},
                placed \cup fresh)

compute_phi_placement(h, promotables) ==
    [i \in 1..Len(promotables) |->
        [promotables[i] EXCEPT !.phi_placement_blocks =
            phi_placement_loop(h, promotables[i].defining_blocks,
                               {rpo_at(h, id) : id \in promotables[i].defining_blocks}, {})]]

\* One PHI at the start of the block, tied to its alloca.
insert_phi_node(h, block, alloca_instr) ==
    [ir_builder_create_phi(ir_builder_set_insertion_block_start(h, block))
        EXCEPT !.instrs[Len(h.instrs) + 1].phi_for_alloca = alloca_instr]

RECURSIVE insert_phis_for(_, _, _)
insert_phis_for(h, pa, block_id) ==
    IF ~Ok(h) \/ block_id >= h.func.block_count THEN h
    ELSE insert_phis_for(IF block_id \in pa.phi_placement_blocks
                         THEN insert_phi_node(h, rpo_at(h, block_id), pa.alloca_instr)
                         ELSE h,
                         pa, block_id + 1)

RECURSIVE insert_phi_nodes(_, _, _)
insert_phi_nodes(h, promotables, i) ==
    IF ~Ok(h) \/ i > Len(promotables) THEN h
    ELSE insert_phi_nodes(insert_phis_for(h, promotables[i], 0), promotables, i + 1)

\* The version stacks: one sequence of values per promotable alloca, the top last.
push_version(stacks, i, value) == [stacks EXCEPT ![i] = Append(@, value)]

top_version(stack) == stack[Len(stack)]

\* The index in ctx->promotables of the alloca with this instruction or this
\* address, 0 if there is none.
promotable_of_instr(promotables, alloca_instr) ==
    IF \E i \in 1..Len(promotables) : promotables[i].alloca_instr = alloca_instr
    THEN Min({i \in 1..Len(promotables) : promotables[i].alloca_instr = alloca_instr})
    ELSE 0

promotable_of_val(promotables, val) ==
    IF \E i \in 1..Len(promotables) : promotables[i].alloca_val = val
    THEN Min({i \in 1..Len(promotables) : promotables[i].alloca_val = val})
    ELSE 0

\* Step 1: the PHIs of the block define new versions.
RECURSIVE push_phi_versions(_, _, _, _)
push_phi_versions(h, promotables, phis, stacks) ==
    IF phis = <<>> THEN stacks
    ELSE LET i == promotable_of_instr(promotables, h.instrs[Head(phis)].phi_for_alloca) IN
         push_phi_versions(h, promotables, Tail(phis),
                           IF i # 0 THEN push_version(stacks, i, h.instrs[Head(phis)].dest)
                           ELSE stacks)

\* Step 2 for a load: its result is replaced by the top of the stack and the
\* load is marked.
rename_load(r, promotables, instr) ==
    LET i == promotable_of_val(promotables, OperandData(r.h, instr, 1)) IN
    IF i = 0 THEN r
    ELSE [r EXCEPT !.h = mark_instruction_for_removal(
                             replace_all_uses_with(r.h, FALSE, r.h.instrs[instr].dest,
                                                   top_version(r.stacks[i])),
                             instr)]

\* Step 2 for a store: the stored value is the new version and the store is
\* marked.
rename_store(r, promotables, instr) ==
    LET i == promotable_of_val(promotables, OperandData(r.h, instr, 2)) IN
    IF i = 0 THEN r
    ELSE [h |-> mark_instruction_for_removal(r.h, instr),
          stacks |-> push_version(r.stacks, i, OperandData(r.h, instr, 1))]

\* Step 2: the instructions of the block in order; r = [h, stacks].
RECURSIVE rename_instructions(_, _, _)
rename_instructions(r, promotables, instrs) ==
    IF ~Ok(r.h) \/ instrs = <<>> THEN r
    ELSE rename_instructions(
             IF r.h.instrs[Head(instrs)].opcode = "load"
             THEN rename_load(r, promotables, Head(instrs))
             ELSE IF r.h.instrs[Head(instrs)].opcode = "store"
             THEN rename_store(r, promotables, Head(instrs))
             ELSE r,
             promotables, Tail(instrs))

\* Step 3 for one successor: its PHIs get the current versions as the values
\* that come from block.
RECURSIVE fill_phis(_, _, _, _, _)
fill_phis(h, promotables, stacks, phis, block) ==
    IF ~Ok(h) \/ phis = <<>> THEN h
    ELSE LET j == promotable_of_instr(promotables, h.instrs[Head(phis)].phi_for_alloca) IN
         fill_phis(IF j # 0
                   THEN ir_phi_add_incoming(h, Head(phis), top_version(stacks[j]), block)
                   ELSE h,
                   promotables, stacks, Tail(phis), block)

RECURSIVE fill_successor_phis(_, _, _, _, _)
fill_successor_phis(h, promotables, stacks, block, i) ==
    IF ~Ok(h) \/ i > Len(h.bbs[block].successors) THEN h
    ELSE fill_successor_phis(
             fill_phis(h, promotables, stacks, BlockPhis(h, h.bbs[block].successors[i]), block),
             promotables, stacks, block, i + 1)

\* Steps 3 to 5 with the stacks as steps 1 and 2 left them: the versions pushed
\* in the block are those the children see, and they are popped on return.
RECURSIVE rename_recursive(_, _, _, _)
RECURSIVE rename_children(_, _, _, _, _)
rename_from_step_3(r, promotables, block) ==
    cleanup_removed_instructions(
        rename_children(fill_successor_phis(r.h, promotables, r.stacks, block, 1),
                        promotables, r.stacks, block, 1),
        block)

rename_recursive(h, promotables, stacks, block) ==
    IF ~Ok(h) THEN h
    ELSE rename_from_step_3(
             rename_instructions(
                 [h |-> h,
                  stacks |-> push_phi_versions(h, promotables, BlockPhis(h, block), stacks)],
                 promotables, BlockInstrs(h, block)),
             promotables, block)

rename_children(h, promotables, stacks, block, i) ==
    IF ~Ok(h) \/ i > Len(h.bbs[block].dom_children) THEN h
    ELSE rename_children(
             rename_recursive(h, promotables, stacks, h.bbs[block].dom_children[i]),
             promotables, stacks, block, i + 1)

\* create_undef_value: a zero-filled value that is no constant.
create_undef_value(h) == create_ir_value(h, "undef", 0)

\* Every stack starts with the undefined value, the last value of h.
rename_variables(h, promotables) ==
    rename_recursive(h, promotables, [i \in 1..Len(promotables) |-> <<Len(h.vals)>>],
                     h.func.entry)

RECURSIVE erase_promoted_allocas(_, _, _)
erase_promoted_allocas(h, promotables, i) ==
    IF ~Ok(h) \/ i > Len(promotables) THEN h
    ELSE erase_promoted_allocas(erase_instruction(h, promotables[i].alloca_instr),
                                promotables, i + 1)

\* Steps 2 to 5 of run_mem2reg.
promote_allocas(h, promotables) ==
    erase_promoted_allocas(
        rename_variables(create_undef_value(insert_phi_nodes(h, promotables, 1)), promotables),
        promotables, 1)

\* r = [h, changed]
run_mem2reg(h) ==
    IF ~Ok(h) \/ h.func.entry = NULL THEN [h |-> h, changed |-> FALSE]
    ELSE IF analyze_allocas(ir_builder_init(h)) = <<>>
         THEN [h |-> ir_builder_init(h), changed |-> FALSE]
    ELSE [h |-> promote_allocas(ir_builder_init(h),
                                compute_phi_placement(h, analyze_allocas(h))),
          changed |-> TRUE]

----------------------------------------------------------------------------
(* run_mem2reg on functions of M2RBlocks blocks with one scalar variable *)

M2RBlocks == 3

\* What a block does with the variable before its terminator.
BodyKinds == {"none", "store", "load", "store_load", "load_store"}

\* store c, %a.addr, where c is the constant of block b (value b + 1).
with_store(h, b, addr) == emit(h, b, "store", FALSE, <<V(b + 1), V(addr)>>)

\* %l = load %a.addr; %u = add %l, c.
with_load(h, b, addr) ==
    emit(emit(h, b, "load", TRUE, <<V(addr)>>), b, "add", TRUE, <<V(Len(h.vals) + 1), V(b + 1)>>)

with_body(h, b, kind, addr) ==
    CASE kind = "none" -> h
      [] kind = "store" -> with_store(h, b, addr)
      [] kind = "load" -> with_load(h, b, addr)
      [] kind = "store_load" -> with_load(with_store(h, b, addr), b, addr)
      [] kind = "load_store" -> with_store(with_load(h, b, addr), b, addr)

RECURSIVE with_m2r_bodies(_, _, _, _, _)
with_m2r_bodies(h, terms, kinds, b, addr) ==
    IF ~Ok(h) \/ b > Len(terms) THEN h
    ELSE with_m2r_bodies(with_terminator(with_body(h, b, kinds[b], addr), b, terms[b], 1),
                         terms, kinds, b + 1, addr)

\* int f(int cond) { int a; ... }: value 1 is the argument, value b + 1 the
\* constant of block b, and the entry block starts with %a.addr = alloca i32.
m2r_function(terms, kinds) ==
    with_m2r_bodies(
        emit(with_constants(function_skeleton(1, Len(terms)), 1, Len(terms)),
             1, "alloca", TRUE, <<>>),
        terms, kinds, 1, Len(terms) + 2)

\* The entry block does not read the variable before it has stored to it.
M2RBodies == {kinds \in [1..M2RBlocks -> BodyKinds] : kinds[1] \in {"none", "store", "store_load"}}

InitM2R == InitSCFG

\* optimize_function hands run_mem2reg a function with its CFG and its
\* dominators computed.
GenerateM2R ==
    /\ last.op = "init"
    /\ \E terms \in ConnectedTerminators(M2RBlocks), kinds \in M2RBodies :
         /\ ir' = compute_dominators(build_cfg(m2r_function(terms, kinds)))
         /\ last' = [n |-> 1, op |-> "generate", before |-> ir']
    /\ UNCHANGED <<build, exec>>

RunMem2Reg ==
    /\ Ok(ir)
    /\ last.op = "generate"
    /\ ir' = run_mem2reg(ir).h
    /\ last' = [last EXCEPT !.n = 2, !.op = "run_mem2reg"]
    /\ UNCHANGED <<build, exec>>

NextM2R == GenerateM2R \/ RunMem2Reg

SpecM2R == InitM2R /\ [][NextM2R]_vars

\* The paths of the control flow graph from the entry block, of at most len
\* blocks.
RECURSIVE PathsFromEntry(_, _)
PathsFromEntry(h, len) ==
    IF len = 1 THEN {<<h.func.entry>>}
    ELSE LET shorter == PathsFromEntry(h, len - 1) IN
         shorter \cup UNION {{Append(p, t) : t \in Range(h.bbs[p[Len(p)]].successors)} :
                                p \in {q \in shorter : Len(q) = len - 1}}

\* Long enough to go round a loop of the function once and leave it.
PathsTo(h, block) ==
    {p \in PathsFromEntry(h, M2RBlocks + 2) : p[Len(p)] = block}

\* The value of the last store to addr among instrs, NULL if there is none.
RECURSIVE LastStore(_, _, _)
LastStore(h, addr, instrs) ==
    IF instrs = <<>> THEN NULL
    ELSE LET i == instrs[Len(instrs)] IN
         IF h.instrs[i].opcode = "store" /\ OperandData(h, i, 2) = addr
         THEN OperandData(h, i, 1)
         ELSE LastStore(h, addr, SubSeq(instrs, 1, Len(instrs) - 1))

\* The value of the last store to addr when control leaves the last block of p,
\* NULL if p has no store.
RECURSIVE StoredOnPath(_, _, _)
StoredOnPath(h, addr, p) ==
    IF p = <<>> THEN NULL
    ELSE IF LastStore(h, addr, BlockInstrs(h, p[Len(p)])) # NULL
         THEN LastStore(h, addr, BlockInstrs(h, p[Len(p)]))
         ELSE StoredOnPath(h, addr, SubSeq(p, 1, Len(p) - 1))

\* The value that the load reads when control has come along p to its block:
\* NULL if nothing was stored.
ValueRead(h, load, p) ==
    LET addr == OperandData(h, load, 1)
        instrs == BlockInstrs(h, h.instrs[load].parent)
        own == LastStore(h, addr, SubSeq(instrs, 1, IndexOf(instrs, load) - 1))
    IN IF own # NULL THEN own ELSE StoredOnPath(h, addr, SubSeq(p, 1, Len(p) - 1))

\* The last place of block in p, 0 if it is not on p.
LastIndex(p, block) ==
    IF \E k \in 1..Len(p) : p[k] = block THEN Max({k \in 1..Len(p) : p[k] = block}) ELSE 0

\* What value v stands for when control has come along p: an undefined value is
\* NULL, the result of a PHI is what the PHI takes from the block that p
\* entered its block from (-1 if it has no entry for it), any other value is
\* itself.
RECURSIVE SelectedOnPath(_, _, _)
SelectedOnPath(h, v, p) ==
    IF v = NULL THEN -1
    ELSE IF h.vals[v].cls = "undef" THEN NULL
    ELSE IF h.vals[v].def_instr = NULL \/ h.instrs[h.vals[v].def_instr].opcode # "phi" THEN v
    ELSE LET phi == h.vals[v].def_instr
             k == LastIndex(p, h.instrs[phi].parent)
         IN IF k < 2 THEN -1
            ELSE SelectedOnPath(h, phi_get_incoming_value_for_block(h, phi, p[k - 1]),
                                SubSeq(p, 1, k - 1))

\* The loads of promotable allocas.
PromotedLoads(h) ==
    {i \in LinkedInstrs(h) :
        /\ h.instrs[i].opcode = "load"
        /\ promotable_of_val(analyze_allocas(h), OperandData(h, i, 1)) # 0}

\* The first operand of the instruction that followed the load and used its
\* result.
ReplacedBy(before, after, load) == OperandData(after, before.instrs[load].next, 1)

\* C20: after run_mem2reg, on every path from the entry block to a former load
\* of a promoted alloca, the value that has replaced the load's result is the
\* value of the last store to the alloca on that path (directly, or as what
\* the PHIs select along the path), and undef exactly when the path has no
\* store before the load.
C20_LoadsReadLastStore ==
    (last.op = "run_mem2reg" /\ Ok(ir)) =>
        \A load \in PromotedLoads(last.before) :
            \A p \in PathsTo(last.before, last.before.instrs[load].parent) :
                SelectedOnPath(ir, ReplacedBy(last.before, ir, load), p)
                    = ValueRead(last.before, load, p)

\* The promotable allocas, and the loads and stores through them.
PromotedAccesses(h) ==
    {i \in LinkedInstrs(h) :
        \/ /\ h.instrs[i].opcode = "alloca"
           /\ promotable_of_instr(analyze_allocas(h), i) # 0
        \/ /\ h.instrs[i].opcode = "load"
           /\ promotable_of_val(analyze_allocas(h), OperandData(h, i, 1)) # 0
        \/ /\ h.instrs[i].opcode = "store"
           /\ promotable_of_val(analyze_allocas(h), OperandData(h, i, 2)) # 0}

\* C5: after run_mem2reg has returned, no promotable alloca and no load or
\* store through one is linked in a block of the function any more.
C5_PromotedAccessesAreGone ==
    (last.op = "run_mem2reg" /\ Ok(ir)) =>
        PromotedAccesses(last.before) \cap LinkedInstrs(ir) = {}

\* The dominance frontier of block x: the blocks y with a predecessor that x
\* dominates, which x does not strictly dominate.
DominanceFrontier(h, x) ==
    {y \in Range(FuncBlocks(h)) :
        /\ \E p \in Range(h.bbs[y].predecessors) : Dominates(h, x, p)
        /\ ~(x # y /\ Dominates(h, x, y))}

\* The iterated dominance frontier of the set S of blocks.
RECURSIVE IteratedFrontier(_, _, _)
IteratedFrontier(h, S, acc) ==
    LET next == UNION {DominanceFrontier(h, x) : x \in S \cup acc} IN
    IF next = acc THEN acc ELSE IteratedFrontier(h, S, next)

\* The blocks with a store to the address.
StoreBlocks(h, addr) ==
    {h.instrs[i].parent : i \in {j \in LinkedInstrs(h) :
        h.instrs[j].opcode = "store" /\ OperandData(h, j, 2) = addr}}

\* The PHIs of block b that stand for the alloca.
PhisFor(h, b, alloca_instr) ==
    {i \in Range(BlockInstrs(h, b)) :
        h.instrs[i].opcode = "phi" /\ h.instrs[i].phi_for_alloca = alloca_instr}

\* C21: after run_mem2reg, for every promotable alloca, the blocks that hold a
\* PHI for it are the blocks of the iterated dominance frontier of the blocks
\* that stored to it, and each of them holds exactly one.
C21_PhisAtIteratedFrontier ==
    (last.op = "run_mem2reg" /\ Ok(ir)) =>
        \A k \in 1..Len(analyze_allocas(last.before)) :
            LET pa == analyze_allocas(last.before)[k] IN
            \A b \in Range(FuncBlocks(ir)) :
                Cardinality(PhisFor(ir, b, pa.alloca_instr))
                    = IF b \in IteratedFrontier(last.before,
                                                StoreBlocks(last.before, pa.alloca_val), {})
                      THEN 1 ELSE 0

----------------------------------------------------------------------------
(* Terminators emitted through the builder (ir_builder.c) *)

\* assert(builder->current_bb->tail == NULL && "Block already has a terminator.");
assert_no_tail(h) ==
    IF Ok(h) /\ h.bbs[h.builder.current_bb].tail # NULL THEN AssertFails(h) ELSE h

\* The new terminator, the last instruction of the table, gets its operands and
\* goes to the end of the current block.
terminator_with(h, instr, specs) ==
    IF ~Ok(h) THEN h
    ELSE add_instr_to_bb_end(add_operands(h, instr, specs), h.builder.current_bb, instr)

ir_builder_create_cond_br(h, cond, true_dest, false_dest) ==
    IF ~Ok(h) THEN h
    ELSE terminator_with(create_ir_instruction(assert_no_tail(h), "br"), Len(h.instrs) + 1,
                         <<V(cond), B(true_dest), B(false_dest)>>)

ir_builder_create_ret(h, val) ==
    IF ~Ok(h) THEN h
    ELSE terminator_with(create_ir_instruction(assert_no_tail(h), "ret"), Len(h.instrs) + 1,
                         IF val # NULL THEN <<V(val)>> ELSE <<>>)

\* Instructions a client of the builder emits at most.
MaxEmits == 3

\* A function of two blocks; value 1 is its argument.  The entry block is empty
\* or holds one add, and the builder is at its end.
InitTerm ==
    /\ build \in Builds
    /\ \E body \in BOOLEAN :
         ir = ir_builder_init(IF body
                              THEN emit(function_skeleton(1, 2), 1, "add", TRUE, <<V(1), V(1)>>)
                              ELSE function_skeleton(1, 2))
    /\ last = [n |-> 0, op |-> "init", bb |-> NULL, tail |-> NULL, ret |-> NULL]
    /\ exec = NoExec

Emitting == Ok(ir) /\ last.n < MaxEmits

\* What the ghost record keeps of one emission: the block of the cursor, its
\* tail before the call, and the instruction returned.
emitted(op) ==
    last' = [n |-> last.n + 1, op |-> op, bb |-> ir.builder.current_bb,
             tail |-> ir.bbs[ir.builder.current_bb].tail, ret |-> Len(ir.instrs) + 1]

PositionAtEnd ==
    /\ Emitting
    /\ \E bb \in 1..2 :
         /\ ir.builder.current_bb # bb
         /\ ir' = ir_builder_set_insertion_block_end(ir, bb)
    /\ last' = [last EXCEPT !.op = "ir_builder_set_insertion_block_end"]
    /\ UNCHANGED <<build, exec>>

CreateBr ==
    /\ Emitting
    /\ \E dest \in 1..2 : ir' = ir_builder_create_br(ir, dest)
    /\ emitted("ir_builder_create_br")
    /\ UNCHANGED <<build, exec>>

CreateCondBr ==
    /\ Emitting
    /\ \E true_dest \in 1..2, false_dest \in 1..2 :
         ir' = ir_builder_create_cond_br(ir, 1, true_dest, false_dest)
    /\ emitted("ir_builder_create_cond_br")
    /\ UNCHANGED <<build, exec>>

CreateRet ==
    /\ Emitting
    /\ \E val \in {NULL, 1} : ir' = ir_builder_create_ret(ir, val)
    /\ emitted("ir_builder_create_ret")
    /\ UNCHANGED <<build, exec>>

NextTerm == PositionAtEnd \/ CreateBr \/ CreateCondBr \/ CreateRet

SpecTerm == InitTerm /\ [][NextTerm]_vars

TerminatorsOf(h, b) ==
    {k \in 1..Len(BlockInstrs(h, b)) : is_terminator_instruction(h, BlockInstrs(h, b)[k])}

\* C30: while the client emits terminators, every block holds at most one
\* terminator, as its last instruction; and an emission into a block without a
\* terminator returns with the new terminator as the tail of the block.
C30_OneTerminatorAtTheEnd ==
    /\ Ok(ir) => \A b \in 1..Len(ir.bbs) :
                     TerminatorsOf(ir, b) \subseteq {Len(BlockInstrs(ir, b))}
    /\ (last.ret # NULL /\ ~is_terminator_instruction(ir, last.tail))
           => (Ok(ir) /\ ir.bbs[last.bb].tail = last.ret)

----------------------------------------------------------------------------
(***************************************************************************)
(* optimize_function call by call.  exec.pc is the statement reached,      *)
(* exec.stale tells that a pass has returned true since build_cfg and      *)
(* compute_dominators last ran, and exec.started is the pass called last   *)
(* with the value of stale at that call.                                   *)
(***************************************************************************)

\* The statements of optimize_function that call a pass under a flag, in order.
FirstPasses == <<"run_sroa", "run_mem2reg">>
RoundPasses == <<"run_inst_combine", "run_sccp", "run_cse", "run_adce", "run_simplify_cfg">>
LoopPasses == <<"run_licm", "run_ind_var_simplify", "run_loop_unroll">>
SweepPasses == <<"run_inst_combine", "run_adce", "run_simplify_cfg">>

\* The passes that walk successor or predecessor lists, the reverse post-order,
\* the dominator tree or the loops as they find them: mem2reg.c:258,399,
\* inst_combine.c:96, cse.c:164, adce.c:263, licm.c:89 (find_loops on the
\* dominators at hand), ind_var_simplify.c:92, loop_unroll.c:81.
\* run_simplify_cfg rebuilds both analyses before it reads them, and
\* run_sroa and run_sccp read neither.
AnalysisReaders ==
    {"run_mem2reg", "run_inst_combine", "run_cse", "run_adce", "run_licm",
     "run_ind_var_simplify", "run_loop_unroll"}

\* Whether the analyses are behind the IR when the pass has returned `changed`.
\* run_simplify_cfg leaves its loop after a round that began with build_cfg and
\* compute_dominators and changed nothing; run_loop_unroll ends a run that
\* changed something with run_simplify_cfg and compute_dominators.
stale_after(pass, stale, changed) ==
    IF pass = "run_simplify_cfg" THEN FALSE
    ELSE IF pass = "run_loop_unroll" /\ changed THEN FALSE
    ELSE stale \/ changed

InitSchedule ==
    /\ ir = EmptyHeap
    /\ build = [ndebug |-> TRUE, nullderef |-> "proceed"]
    /\ last = [n |-> 0, op |-> "init", before |-> EmptyHeap]
    /\ \E config \in OptimizationConfigs :
          exec = [config |-> config, pc |-> <<"analyses", 0>>, iteration |-> 0,
                  changed_in_iteration |-> FALSE, stale |-> TRUE,
                  started |-> [pass |-> "none", stale |-> FALSE]]

step(op) ==
    /\ last' = [last EXCEPT !.n = @ + 1, !.op = op]
    /\ UNCHANGED <<ir, build>>

\* build_cfg(func); compute_dominators(func); at the start, and at the end of a
\* round that changed something.
RunAnalyses ==
    /\ exec.pc[1] = "analyses"
    /\ exec' = [exec EXCEPT !.stale = FALSE,
                            !.pc = IF exec.pc[2] = 0 THEN <<"first", 1>> ELSE <<"while", 0>>]
    /\ step("compute_dominators")

\* The pass at position pc of the list, called if its flag is set; next is the
\* statement after the list.
call_in(passes, next, counted) ==
    LET pass == passes[exec.pc[2]]
        after == IF exec.pc[2] < Len(passes) THEN <<exec.pc[1], exec.pc[2] + 1>> ELSE next
    IN IF FlagOf(pass) \in exec.config.flags
       THEN \E changed \in BOOLEAN :
               /\ exec' = [exec EXCEPT
                             !.pc = after,
                             !.started = [pass |-> pass, stale |-> exec.stale],
                             !.stale = stale_after(pass, exec.stale, changed),
                             !.changed_in_iteration = IF counted THEN @ \/ changed ELSE @]
               /\ step(pass)
       ELSE /\ exec' = [exec EXCEPT !.pc = after]
            /\ step("skip")

\* if (config->enable_sroa) run_sroa(func); if (config->enable_mem2reg) run_mem2reg(func);
CallFirstPass ==
    /\ exec.pc[1] = "first"
    /\ call_in(FirstPasses, <<"round", 1>>, FALSE)

\* changed_in_iteration |= run_...(func);
CallRoundPass ==
    /\ exec.pc[1] = "round"
    /\ call_in(RoundPasses, <<"end_of_round", 0>>, TRUE)

\* if (changed_in_iteration) { build_cfg; compute_dominators; } iteration++;
EndOfRound ==
    /\ exec.pc[1] = "end_of_round"
    /\ exec' = [exec EXCEPT !.iteration = @ + 1,
                            !.pc = IF exec.changed_in_iteration THEN <<"analyses", 1>>
                                   ELSE <<"while", 0>>]
    /\ step("iteration++")

\* } while (changed_in_iteration && iteration < config->max_iterations);
\* find_loops(func); if (func->top_level_loops) ...
WhileOrFindLoops ==
    /\ exec.pc[1] = "while"
    /\ IF exec.changed_in_iteration /\ exec.iteration < exec.config.max_iterations
       THEN /\ exec' = [exec EXCEPT !.pc = <<"round", 1>>, !.changed_in_iteration = FALSE]
            /\ step("do")
       ELSE \E loops \in BOOLEAN :
               /\ exec' = [exec EXCEPT !.pc = IF loops THEN <<"loop", 1>> ELSE <<"done", 0>>]
               /\ step("find_loops")

CallLoopPass ==
    /\ exec.pc[1] = "loop"
    /\ call_in(LoopPasses, <<"sweep", 1>>, FALSE)

\* if (run_inst_combine(func) || run_adce(func) || run_simplify_cfg(func)):
\* the first pass that returns true ends the sweep.
CallSweepPass ==
    /\ exec.pc[1] = "sweep"
    /\ \E changed \in BOOLEAN :
          LET pass == SweepPasses[exec.pc[2]] IN
          /\ exec' = [exec EXCEPT
                        !.pc = IF changed \/ exec.pc[2] = Len(SweepPasses) THEN <<"done", 0>>
                               ELSE <<"sweep", exec.pc[2] + 1>>,
                        !.started = [pass |-> pass, stale |-> exec.stale],
                        !.stale = stale_after(pass, exec.stale, changed)]
          /\ step(pass)

NextSchedule ==
    \/ RunAnalyses
    \/ CallFirstPass
    \/ CallRoundPass
    \/ EndOfRound
    \/ WhileOrFindLoops
    \/ CallLoopPass
    \/ CallSweepPass

SpecSchedule == InitSchedule /\ [][NextSchedule]_vars

\* C29: in optimize_function, a pass that reads the successor and predecessor
\* lists, the dominator tree, the timestamps or the loops is never started
\* while a pass has returned changed = true since build_cfg and
\* compute_dominators last ran.
C29_ReadersStartOnFreshAnalyses ==
    exec.started.pass \in AnalysisReaders => ~exec.started.stale

----------------------------------------------------------------------------
(* thread_jumps and merge_sequential_blocks in the first round of             *)
(* run_simplify_cfg, on the functions of SCFGBlocks blocks                    *)

\* The round of run_simplify_cfg up to the call of thread_jumps.
before_thread_jumps(h) ==
    rebuild_analyses(
        simplify_constant_branches(
            [rebuild_analyses([h |-> ir_builder_init(h), changed |-> FALSE, local |-> TRUE])
                EXCEPT !.local = FALSE]))

\* The block that a scan of thread_jumps threads through: the first one popped
\* that passes the tests; NULL if there is none.
RECURSIVE trampoline_to_thread(_, _)
trampoline_to_thread(h, worklist) ==
    IF worklist = <<>> THEN NULL
    ELSE LET bb_b == Top(worklist) IN
         IF /\ is_trampoline(h, bb_b)
            /\ bb_b # h.func.entry
            /\ h.bbs[bb_b].predecessors # <<>>
            /\ OperandData(h, h.bbs[bb_b].head, 1) # bb_b
            /\ can_thread(h, bb_b, OperandData(h, h.bbs[bb_b].head, 1))
         THEN bb_b
         ELSE trampoline_to_thread(h, Pop(worklist))

\* The pair (A, B) that a scan of merge_sequential_blocks merges; <<>> if there
\* is none.
RECURSIVE blocks_to_merge(_, _)
blocks_to_merge(h, worklist) ==
    IF worklist = <<>> THEN <<>>
    ELSE LET bb_a == Top(worklist)
             tail == h.bbs[bb_a].tail
         IN IF /\ tail # NULL
               /\ h.instrs[tail].opcode = "br"
               /\ Len(h.bbs[bb_a].successors) = 1
               /\ h.bbs[bb_a].successors[1] # h.func.entry
               /\ Len(h.bbs[h.bbs[bb_a].successors[1]].predecessors) = 1
               /\ ~(/\ h.bbs[h.bbs[bb_a].successors[1]].head # NULL
                    /\ h.instrs[h.bbs[h.bbs[bb_a].successors[1]].head].opcode = "phi")
            THEN <<bb_a, h.bbs[bb_a].successors[1]>>
            ELSE blocks_to_merge(h, Pop(worklist))

unchanged_so_far(h) == [h |-> h, changed |-> FALSE, local |-> FALSE]

\* thread_jumps(&ctx) as run_simplify_cfg calls it first.  The ghost record
\* keeps the heap at the call, the trampoline of the first scan, and the heap
\* when that scan has redirected the predecessors.
thread_jumps_of(r) ==
    /\ ir' = thread_jumps(r).h
    /\ last' = [n |-> 2, op |-> "thread_jumps", before |-> r.h,
                block |-> trampoline_to_thread(r.h, FuncBlocks(r.h)),
                first |-> thread_jumps_scan(r, FuncBlocks(r.h)).h]

ThreadJumps ==
    /\ Ok(ir)
    /\ last.op = "generate"
    /\ Ok(before_thread_jumps(ir).h)
    /\ thread_jumps_of(before_thread_jumps(ir))
    /\ UNCHANGED <<build, exec>>

\* merge_sequential_blocks(&ctx), which follows.  The ghost record keeps the
\* heap at the call, the pair of the first scan and the heap after that scan.
merge_sequential_blocks_of(r) ==
    /\ ir' = merge_sequential_blocks(r).h
    /\ last' = [n |-> 3, op |-> "merge_sequential_blocks", before |-> r.h,
                block |-> blocks_to_merge(r.h, FuncBlocks(r.h)),
                first |-> merge_scan(r, FuncBlocks(r.h)).h]

MergeSequentialBlocks ==
    /\ Ok(ir)
    /\ last.op = "thread_jumps"
    /\ merge_sequential_blocks_of(unchanged_so_far(ir))
    /\ UNCHANGED <<build, exec>>

NextSub == GenerateSCFG \/ ThreadJumps \/ MergeSequentialBlocks

SpecSub == InitSCFG /\ [][NextSub]_vars

\* C27: when a scan of thread_jumps has redirected the predecessors P of the
\* trampoline B to its target C, every PHI of C has for each P the value it had
\* for B, and names the predecessors of C, each as often as it is one.
C27_ThreadedPhisKeepValues ==
    (last.op = "thread_jumps" /\ last.block # NULL /\ Ok(last.first)) =>
        LET bb_b == last.block
            bb_c == OperandData(last.before, last.before.bbs[bb_b].head, 1)
        IN \A phi \in Range(BlockPhis(last.before, bb_c)) :
              /\ \A p \in Range(last.before.bbs[bb_b].predecessors) :
                    phi_get_incoming_value_for_block(last.first, phi, p)
                        = phi_get_incoming_value_for_block(last.before, phi, bb_b)
              /\ SameBag(PhiBlocks(last.first, phi), Pred(last.first, bb_c))

\* C28: when a scan of merge_sequential_blocks has merged B into A, the
\* instructions of A are its former ones without the terminator, followed by
\* those of B, in their order; B is out of the function; and the next scan
\* does not take A and B again.
C28_MergedBlockHoldsBoth ==
    (last.op = "merge_sequential_blocks" /\ last.block # <<>> /\ Ok(last.first)) =>
        LET bb_a == last.block[1]
            bb_b == last.block[2]
            former == BlockInstrs(last.before, bb_a)
        IN /\ BlockInstrs(last.first, bb_a)
                 = SubSeq(former, 1, Len(former) - 1) \o BlockInstrs(last.before, bb_b)
           /\ bb_b \notin Range(FuncBlocks(last.first))
           /\ blocks_to_merge(last.first, FuncBlocks(last.first)) # last.block

----------------------------------------------------------------------------
(* Aggressive dead code elimination (adce.c) *)

is_critical_instruction(h, instr) ==
    instr # NULL /\ h.instrs[instr].opcode \in {"call", "store", "ret", "br"}

\* for (bb = func->blocks; bb; bb = bb->next_in_func)
\*     for (instr = bb->head; instr; instr = instr->next)
RECURSIVE instructions_in(_, _)
instructions_in(h, blocks) ==
    IF blocks = <<>> THEN <<>>
    ELSE BlockInstrs(h, Head(blocks)) \o instructions_in(h, Tail(blocks))

function_instructions(h) == instructions_in(h, FuncBlocks(h))

recalculate_instruction_count(h) ==
    [h EXCEPT !.func.instruction_count =
        Cardinality({k \in 1..Len(function_instructions(h)) :
                        h.instrs[function_instructions(h)[k]].opcode # "unknown"})]

\* int total_instructions = func->instruction_count; if it is 0 the count is
\* taken again.
with_total_instructions(h) ==
    IF h.func.instruction_count = 0 THEN recalculate_instruction_count(h) ELSE h

\* instr_info has total_instructions entries and gets one entry per linked
\* instruction: with more instructions than entries the others are written
\* behind the array.  (block_info is only written.)
initialize_instruction_info(h) ==
    IF Len(function_instructions(h)) > h.func.instruction_count THEN OutOfBounds(h) ELSE h

\* instr_info[instr_idx].is_critical, instr_idx counted from 1 here.  An entry
\* behind the array shares its memory with block_info, allocated next: it reads
\* back as written, or with the flag set or cleared by a write to block_info.
info_is_critical(h, instr, instr_idx) ==
    IF instr_idx <= h.func.instruction_count \/ exec.behind = "kept"
    THEN is_critical_instruction(h, instr)
    ELSE exec.behind = "set"

\* The state of the pass: a.live holds the instructions with is_live set, a.wl
\* the worklist (its top is the last element), a.live_blocks the post_order_ids
\* with live_blocks[id] set.
mark_instruction_live(a, instr) ==
    IF instr = NULL \/ instr \in a.live THEN a
    ELSE [a EXCEPT !.live = @ \cup {instr},
                   !.wl = Append(@, instr),
                   !.live_blocks = IF a.h.instrs[instr].parent # NULL
                                   THEN @ \cup {a.h.bbs[a.h.instrs[instr].parent].post_order_id}
                                   ELSE @]

RECURSIVE mark_critical(_, _, _)
mark_critical(a, instrs, instr_idx) ==
    IF instr_idx > Len(instrs) THEN a
    ELSE mark_critical(IF info_is_critical(a.h, instrs[instr_idx], instr_idx)
                       THEN mark_instruction_live(a, instrs[instr_idx]) ELSE a,
                       instrs, instr_idx + 1)

\* if (val && !val->is_constant && val->def_instr) mark_instruction_live(...)
mark_definition(a, val) ==
    IF val # NULL /\ ~a.h.vals[val].is_constant /\ a.h.vals[val].def_instr # NULL
    THEN mark_instruction_live(a, a.h.vals[val].def_instr)
    ELSE a

\* The loop over the operands of an instruction that is no PHI reads
\* op->data.value of every operand, of a block operand too.  The block is then
\* read as an IRValue: is_constant is the first byte of bb->label and def_instr
\* is bb->prev_in_func.  With a nonzero byte, or for the first block of the
\* function, nothing is marked; otherwise a block is marked as an instruction.
mark_block_as_value(a, bb) ==
    IF exec.label = "nonzero" \/ a.h.bbs[bb].prev_in_func = NULL THEN a
    ELSE [a EXCEPT !.h = Stop(a.h, "segv")]

RECURSIVE mark_operands(_, _, _)
mark_operands(a, operands, k) ==
    IF ~Ok(a.h) \/ k > Len(operands) THEN a
    ELSE mark_operands(IF a.h.ops[operands[k]].kind = "bb"
                       THEN mark_block_as_value(a, a.h.ops[operands[k]].data)
                       ELSE mark_definition(a, a.h.ops[operands[k]].data),
                       operands, k + 1)

\* PHI: the value of a pair is followed only if the block of the pair is live.
RECURSIVE mark_incoming(_, _, _)
mark_incoming(a, operands, k) ==
    IF k > Len(operands) THEN a
    ELSE IF k + 1 <= Len(operands) /\ a.h.ops[operands[k + 1]].kind = "bb"
         THEN mark_incoming(
                  IF a.h.bbs[a.h.ops[operands[k + 1]].data].post_order_id \in a.live_blocks
                  THEN mark_definition(a, a.h.ops[operands[k]].data)
                  ELSE a,
                  operands, k + 2)
    ELSE IF k + 1 <= Len(operands) THEN mark_incoming(a, operands, k + 2)
    ELSE a

propagate_data_flow_liveness(a, instr) ==
    IF instr = NULL THEN a
    ELSE IF a.h.instrs[instr].opcode = "phi"
         THEN mark_incoming(a, a.h.instrs[instr].operands, 1)
         ELSE mark_operands(a, a.h.instrs[instr].operands, 1)

RECURSIVE mark_tails(_, _)
mark_tails(a, preds) ==
    IF preds = <<>> THEN a
    ELSE mark_tails(IF a.h.bbs[Head(preds)].tail # NULL
                    THEN mark_instruction_live(a, a.h.bbs[Head(preds)].tail) ELSE a,
                    Tail(preds))

propagate_control_flow_liveness(a, bb) ==
    IF bb = NULL \/ a.h.bbs[bb].post_order_id \in a.live_blocks THEN a
    ELSE mark_tails([a EXCEPT !.live_blocks = @ \cup {a.h.bbs[bb].post_order_id}],
                    a.h.bbs[bb].predecessors)

\* while (wl->count > 0 && iteration_count < max_iterations)
RECURSIVE propagate_liveness(_, _)
propagate_liveness(a, max_iterations) ==
    IF ~Ok(a.h) \/ a.wl = <<>> \/ a.iteration_count >= max_iterations THEN a
    ELSE LET live_instr == a.wl[Len(a.wl)] IN
         propagate_liveness(
             propagate_control_flow_liveness(
                 propagate_data_flow_liveness(
                     [a EXCEPT !.wl = SubSeq(@, 1, Len(@) - 1),
                               !.iteration_count = @ + 1],
                     live_instr),
                 a.h.instrs[live_instr].parent),
             max_iterations)

\* The instructions are visited in the order of the lists; next_instr is read
\* before the erase.
RECURSIVE erase_dead(_, _, _)
erase_dead(r, instrs, live) ==
    IF ~Ok(r.h) \/ instrs = <<>> THEN r
    ELSE erase_dead(IF Head(instrs) \in live THEN r
                    ELSE [h |-> erase_instruction(r.h, Head(instrs)), changed |-> TRUE],
                    Tail(instrs), live)

sweep(a) == erase_dead([h |-> a.h, changed |-> FALSE], function_instructions(a.h), a.live)

adce_of(h) ==
    sweep(propagate_liveness(
              mark_critical([h |-> initialize_instruction_info(h), live |-> {}, wl |-> <<>>,
                             live_blocks |-> {}, iteration_count |-> 0],
                            function_instructions(h), 1),
              h.func.instruction_count * 2))

run_adce(h) ==
    IF ~Ok(h) \/ h.func.entry = NULL THEN [h |-> h, changed |-> FALSE]
    ELSE adce_of(with_total_instructions(h))

----------------------------------------------------------------------------
(* run_adce on functions of up to ADCEBlocks blocks *)

ADCEBlocks == 2
MaxDeficit == 3

\* What a block computes before its terminator; value 1 is the argument, value
\* 2 the constant 1.
ADCEKinds == {"none", "dead", "chain", "store", "deep", "phi"}

add_of(h, b, v) == emit(h, b, "add", TRUE, <<V(v), V(2)>>)
add_of_last(h, b) == add_of(h, b, NewVal(h))
store_of_last(h, b) == emit(h, b, "store", FALSE, <<V(NewVal(h)), V(1)>>)

with_adce_body(h, b, kind, preds) ==
    CASE kind = "none" -> h
      [] kind = "dead" -> add_of(h, b, 1)
      [] kind = "chain" -> add_of_last(add_of(h, b, 1), b)
      [] kind = "store" -> store_of_last(add_of(h, b, 1), b)
      [] kind = "deep" -> store_of_last(add_of_last(add_of(h, b, 1), b), b)
      [] kind = "phi" -> store_of_last(add_of_last(emit(h, b, "phi", TRUE, phi_pairs(preds, 1)), b), b)

RECURSIVE with_adce_bodies(_, _, _, _)
with_adce_bodies(h, terms, kinds, b) ==
    IF ~Ok(h) \/ b > Len(terms) THEN h
    ELSE with_adce_bodies(
             with_terminator(with_adce_body(h, b, kinds[b], TermPreds(terms, b)), b, terms[b], 1),
             terms, kinds, b + 1)

\* A pass has put a PHI at the head of the entry block through the builder and
\* a later one has erased it, deficit times: ir_builder_create_phi links the
\* PHI with insert_instr_before, which does not count it, and erase_instruction
\* counts it down.
erase_last_instruction(h) == erase_instruction(h, Len(h.instrs))

RECURSIVE with_deficit(_, _)
with_deficit(h, deficit) ==
    IF ~Ok(h) \/ deficit = 0 THEN h
    ELSE with_deficit(erase_last_instruction(ir_builder_create_phi(h)), deficit - 1)

adce_function(terms, kinds, deficit) ==
    with_deficit(
        ir_builder_init(
            compute_dominators(
                build_cfg(
                    with_adce_bodies(create_ir_value(function_skeleton(1, Len(terms)), "const", 1),
                                     terms, kinds, 1)))),
        deficit)

ADCEBodies(terms) ==
    {kinds \in [1..Len(terms) -> ADCEKinds] :
        \A b \in 1..Len(terms) : kinds[b] = "phi" => TermPreds(terms, b) # <<>>}

\* The outcomes of the two reads of run_adce that C leaves undefined.
InitADCE ==
    /\ build \in Builds
    /\ ir = EmptyHeap
    /\ last = [n |-> 0, op |-> "init", before |-> EmptyHeap]
    /\ exec \in [label : {"zero", "nonzero"}, behind : {"kept", "set", "clear"}]

GenerateADCE ==
    /\ last.op = "init"
    /\ \E n \in 1..ADCEBlocks :
         \E terms \in ConnectedTerminators(n) :
           \E kinds \in ADCEBodies(terms), deficit \in 0..MaxDeficit :
             /\ Ok(adce_function(terms, kinds, deficit))
             /\ adce_function(terms, kinds, deficit).func.instruction_count >= 0
             /\ ir' = adce_function(terms, kinds, deficit)
             /\ last' = [n |-> 1, op |-> "generate", before |-> ir']
    /\ UNCHANGED <<build, exec>>

RunAdce ==
    /\ Ok(ir)
    /\ last.op = "generate"
    /\ ir' = run_adce(ir).h
    /\ last' = [n |-> 2, op |-> "run_adce", before |-> ir]
    /\ UNCHANGED <<build, exec>>

NextADCE == GenerateADCE \/ RunAdce

SpecADCE == InitADCE /\ [][NextADCE]_vars

\* The instructions that define a value operand of one of the instructions S.
DefinersOf(h, S) ==
    {h.vals[h.ops[o].data].def_instr :
        o \in {o \in UNION {Range(h.instrs[i].operands) : i \in S} :
                  /\ h.ops[o].kind = "value"
                  /\ h.vals[h.ops[o].data].def_instr # NULL}}

RECURSIVE ClosedUnderDefiners(_, _)
ClosedUnderDefiners(h, S) ==
    IF DefinersOf(h, S) \subseteq S THEN S ELSE ClosedUnderDefiners(h, S \cup DefinersOf(h, S))

LiveClosure(h) ==
    ClosedUnderDefiners(h, {i \in LinkedInstrs(h) : is_critical_instruction(h, i)})

\* C26: when run_adce returns, the instructions linked in the function are the
\* calls, stores, rets and brs it had, with every instruction that defines an
\* operand of one of those, and no other, whatever instruction_count held.
C26_ExactlyTheLiveClosureRemains ==
    (last.op = "run_adce" /\ Ok(ir)) => LinkedInstrs(ir) = LiveClosure(last.before)

----------------------------------------------------------------------------
(* Common subexpression elimination over the dominator tree (cse.c) *)

NumBuckets == 1024
BacktrackCapacity == 16

is_instruction_cse_able(h, instr) ==
    /\ instr # NULL
    /\ h.instrs[instr].dest # NULL
    /\ h.instrs[instr].opcode \in {"add", "sub", "mul", "sdiv"}

is_commutative_op(opcode) == opcode \in {"add", "mul"}

\* The value of the opcode in the enum Opcode.
opcode_number(opcode) ==
    CASE opcode = "add" -> 2 [] opcode = "sub" -> 3 [] opcode = "mul" -> 4 [] opcode = "sdiv" -> 5

\* The address of the IRValue v in the pool, in words of 8 bytes: the values
\* lie exec.stride bytes apart.  Only the bits that reach the bucket number are
\* kept.
value_word(v) == (v * (exec.stride \div 8)) % NumBuckets

\* key.operands of the instruction, ordered by address if the opcode is
\* commutative (canonicalize_operands).
canonicalize_operands(key) ==
    IF Len(key.operands) = 2 /\ is_commutative_op(key.opcode)
       /\ key.operands[1] > key.operands[2]
    THEN [key EXCEPT !.operands = <<key.operands[2], key.operands[1]>>]
    ELSE key

expression_key(h, instr) ==
    canonicalize_operands(
        [opcode |-> h.instrs[instr].opcode,
         operands |-> [k \in 1..Len(h.instrs[instr].operands) |->
                          h.ops[h.instrs[instr].operands[k]].data]])

RECURSIVE xor_bits(_, _, _)
xor_bits(a, b, n) ==
    IF n = 0 THEN 0
    ELSE (((a % 2) + (b % 2)) % 2) + 2 * xor_bits(a \div 2, b \div 2, n - 1)

\* hash = ((hash << 5) + hash) ^ (pointer >> 3), on the ten bits of the bucket
\* number.
hash_pointer(hash, word) == xor_bits((hash * 33) % NumBuckets, word % NumBuckets, 10)

RECURSIVE hash_operands(_, _, _)
hash_operands(hash, operands, i) ==
    IF i > Len(operands) THEN hash
    ELSE hash_operands(hash_pointer(hash, value_word(operands[i])), operands, i + 1)

\* hash_expression(key) % table->num_buckets: djb2 from 5381 over the opcode,
\* the result type (the i32 type, taken at word 0 of the pool) and the
\* operands.
bucket_of(key) ==
    hash_operands(hash_pointer((5381 * 33 + opcode_number(key.opcode)) % NumBuckets, 0),
                  key.operands, 1)

\* table->buckets as the set of the pairs <<bucket, chain>> with a chain that
\* is not empty; a chain is the sequence of its entries from the head.
chain_of(table, bucket) ==
    IF \E p \in table.buckets : p[1] = bucket
    THEN (CHOOSE p \in table.buckets : p[1] = bucket)[2]
    ELSE <<>>

with_chain(table, bucket, chain) ==
    [table EXCEPT !.buckets = {p \in @ : p[1] # bucket}
                                  \cup (IF chain = <<>> THEN {} ELSE {<<bucket, chain>>})]

EmptyTable == [buckets |-> {}, num_entries |-> 0]

init_backtrack_state(table) ==
    [num_entries_at_entry |-> table.num_entries, old_heads |-> <<>>,
     overwritten_buckets |-> <<>>, capacity |-> BacktrackCapacity, lost |-> FALSE]

\* The head and the number of a bucket that is not empty are recorded.  When
\* the arrays are full two new ones are allocated and the records made so far
\* are not copied.
record_overwritten(bt, bucket, head) ==
    IF head = <<>> THEN bt
    ELSE IF Len(bt.old_heads) >= bt.capacity
         THEN [bt EXCEPT !.capacity = @ * 2, !.lost = TRUE,
                         !.old_heads = Append(@, head),
                         !.overwritten_buckets = Append(@, bucket)]
    ELSE [bt EXCEPT !.old_heads = Append(@, head),
                    !.overwritten_buckets = Append(@, bucket)]

push_entry(table, bucket, entry) ==
    [with_chain(table, bucket, <<entry>> \o chain_of(table, bucket))
        EXCEPT !.num_entries = @ + 1]

\* s = [c, bt]: the state of the pass and the backtrack state of the block.
insert_expression_with_backtrack(s, key, instr) ==
    [c |-> [s.c EXCEPT !.table = push_entry(@, bucket_of(key),
                                            [key |-> key, defining_instr |-> instr])],
     bt |-> record_overwritten(s.bt, bucket_of(key), chain_of(s.c.table, bucket_of(key)))]

\* The first entry of the chain whose instruction is in a block that dominates
\* current_bb and whose key is equal; <<>> if there is none.  Equal keys have
\* equal hashes.
RECURSIVE find_in_chain(_, _, _, _)
find_in_chain(h, chain, key, current_bb) ==
    IF chain = <<>> THEN <<>>
    ELSE IF /\ dominates(h, h.instrs[Head(chain).defining_instr].parent, current_bb)
            /\ Head(chain).key = key
         THEN <<Head(chain)>>
    ELSE find_in_chain(h, Tail(chain), key, current_bb)

find_expression(c, key, current_bb) ==
    find_in_chain(c.h, chain_of(c.table, bucket_of(key)), key, current_bb)

\* for (i = 0; i < num_overwritten; ++i) buckets[overwritten_buckets[i]] = old_heads[i];
RECURSIVE restore_heads(_, _, _)
restore_heads(table, bt, i) ==
    IF i > Len(bt.old_heads) THEN table
    ELSE restore_heads(with_chain(table, bt.overwritten_buckets[i], bt.old_heads[i]), bt, i + 1)

backtrack_hash_table(c, bt) ==
    IF ~Ok(c.h) THEN c
    ELSE IF bt.lost THEN [c EXCEPT !.h = OutOfBounds(@)]
    ELSE [c EXCEPT !.table = [restore_heads(@, bt, 1)
                                 EXCEPT !.num_entries = bt.num_entries_at_entry]]

\* The instruction is replaced by the one found and erased.
replace_by_found(c, instr, found) ==
    IF c.h.instrs[found.defining_instr].dest = NULL THEN c
    ELSE [c EXCEPT !.h = erase_instruction(
                             replace_all_uses_with(@, FALSE, c.h.instrs[instr].dest,
                                                   c.h.instrs[found.defining_instr].dest),
                             instr),
                   !.changed = TRUE]

cse_instruction(s, bb, instr, key, found) ==
    IF found # <<>> THEN [s EXCEPT !.c = replace_by_found(@, instr, found[1])]
    ELSE insert_expression_with_backtrack(s, key, instr)

RECURSIVE cse_block(_, _, _)
cse_block(s, bb, instrs) ==
    IF ~Ok(s.c.h) \/ instrs = <<>> THEN s
    ELSE cse_block(IF is_instruction_cse_able(s.c.h, Head(instrs))
                   THEN cse_instruction(s, bb, Head(instrs), expression_key(s.c.h, Head(instrs)),
                                        find_expression(s.c, expression_key(s.c.h, Head(instrs)), bb))
                   ELSE s,
                   bb, Tail(instrs))

\* The return of cse_recursive(bb), with the table it was entered with, is
\* added to c.returns.
returned(c, bb, at_entry) ==
    [c EXCEPT !.returns = Append(@, [bb |-> bb, at_entry |-> at_entry, at_return |-> c.table])]

RECURSIVE cse_recursive(_, _)
RECURSIVE cse_children(_, _, _)
cse_return(s, bb, at_entry) == returned(backtrack_hash_table(s.c, s.bt), bb, at_entry)

cse_recursive(c, bb) ==
    IF bb = NULL \/ ~Ok(c.h) THEN c
    ELSE cse_return(cse_children(cse_block([c |-> c, bt |-> init_backtrack_state(c.table)],
                                           bb, BlockInstrs(c.h, bb)),
                                 bb, 1),
                    bb, c.table)

cse_children(s, bb, i) ==
    IF ~Ok(s.c.h) \/ i > Len(s.c.h.bbs[bb].dom_children) THEN s
    ELSE cse_children([s EXCEPT !.c = cse_recursive(@, s.c.h.bbs[bb].dom_children[i])], bb, i + 1)

run_cse(h) ==
    IF ~Ok(h) \/ h.func.entry = NULL \/ h.func.blocks = NULL
    THEN [h |-> h, table |-> EmptyTable, changed |-> FALSE, returns |-> <<>>]
    ELSE cse_recursive([h |-> h, table |-> EmptyTable, changed |-> FALSE, returns |-> <<>>],
                       h.func.entry)

----------------------------------------------------------------------------
(* run_cse on functions of CSEBlocks blocks *)

CSEBlocks == 2

\* The expressions of a block before its terminator; value 1 is the argument,
\* values 2 and 3 are constants.
CSEKinds == {"none", "add", "twice", "add_sub", "two_adds", "other_adds"}

expr_of(h, b, opcode, v) == emit(h, b, opcode, TRUE, <<V(1), V(v)>>)

with_cse_body(h, b, kind) ==
    CASE kind = "none" -> h
      [] kind = "add" -> expr_of(h, b, "add", 2)
      [] kind = "twice" -> expr_of(expr_of(h, b, "add", 2), b, "add", 2)
      [] kind = "add_sub" -> expr_of(expr_of(h, b, "add", 2), b, "sub", 2)
      [] kind = "two_adds" -> expr_of(expr_of(h, b, "add", 2), b, "add", 3)
      [] kind = "other_adds" -> expr_of(expr_of(h, b, "add", 3), b, "add", 1)

RECURSIVE with_cse_bodies(_, _, _, _)
with_cse_bodies(h, terms, kinds, b) ==
    IF ~Ok(h) \/ b > Len(terms) THEN h
    ELSE with_cse_bodies(with_terminator(with_cse_body(h, b, kinds[b]), b, terms[b], 1),
                         terms, kinds, b + 1)

cse_function(terms, kinds) ==
    compute_dominators(
        build_cfg(with_cse_bodies(with_constants(function_skeleton(1, Len(terms)), 1, 2),
                                  terms, kinds, 1)))

\* The values of the module lie 64 or 8192 bytes apart in the pool.
InitCSE ==
    /\ build \in Builds
    /\ ir = EmptyHeap
    /\ last = [n |-> 0, op |-> "init", before |-> EmptyHeap]
    /\ exec \in [stride : {64, 8192}]

GenerateCSE ==
    /\ last.op = "init"
    /\ \E terms \in ConnectedTerminators(CSEBlocks), kinds \in [1..CSEBlocks -> CSEKinds] :
         /\ ir' = cse_function(terms, kinds)
         /\ last' = [n |-> 1, op |-> "generate", before |-> ir']
    /\ UNCHANGED <<build, exec>>

cse_of(c) ==
    /\ ir' = c.h
    /\ last' = [n |-> 2, op |-> "run_cse", before |-> ir, returns |-> c.returns]

RunCse ==
    /\ Ok(ir)
    /\ last.op = "generate"
    /\ cse_of(run_cse(ir))
    /\ UNCHANGED <<build, exec>>

NextCSE == GenerateCSE \/ RunCse

SpecCSE == InitCSE /\ [][NextCSE]_vars

\* C25: at every return of cse_recursive each bucket holds the chain it held
\* when the block was entered.
C25_TableRestoredOnReturn ==
    last.op = "run_cse" =>
        \A k \in 1..Len(last.returns) :
            last.returns[k].at_return.buckets = last.returns[k].at_entry.buckets

----------------------------------------------------------------------------
(* Sparse conditional constant propagation (sccp.c) *)

SccpMaxIterations == 1000

LATTICE_TIR_OP == [state |-> "top", int_val |-> 0]
LATTICE_BOTTOM == [state |-> "bottom", int_val |-> 0]
LATTICE_CONSTANT(c) == [state |-> "constant", int_val |-> c]

\* The values of the function are of type i32.
are_lattice_values_equal(v1, v2) ==
    /\ v1.state = v2.state
    /\ v1.state = "constant" => v1.int_val = v2.int_val

merge_lattice_values(v1, v2) ==
    IF v1.state = "bottom" \/ v2.state = "bottom" THEN LATTICE_BOTTOM
    ELSE IF v1.state = "top" THEN v2
    ELSE IF v2.state = "top" THEN v1
    ELSE IF are_lattice_values_equal(v1, v2) THEN v1
    ELSE LATTICE_BOTTOM

\* v1 / v2 and v1 % v2 of C, which truncate towards zero.
c_quotient(v1, v2) ==
    IF (v1 >= 0) = (v2 > 0) THEN (IF v1 >= 0 THEN v1 ELSE -v1) \div (IF v2 > 0 THEN v2 ELSE -v2)
    ELSE -((IF v1 >= 0 THEN v1 ELSE -v1) \div (IF v2 > 0 THEN v2 ELSE -v2))

c_remainder(v1, v2) == v1 - v2 * c_quotient(v1, v2)

truth(b) == IF b THEN 1 ELSE 0

fold_binary(opcode, v1, v2) ==
    CASE opcode = "add" -> v1 + v2
      [] opcode = "sub" -> v1 - v2
      [] opcode = "mul" -> v1 * v2
      [] opcode = "sdiv" -> IF v2 # 0 THEN c_quotient(v1, v2) ELSE 0
      [] opcode = "srem" -> IF v2 # 0 THEN c_remainder(v1, v2) ELSE 0

fold_icmp(pred, v1, v2) ==
    CASE pred = "eq" -> truth(v1 = v2)
      [] pred = "ne" -> truth(v1 # v2)
      [] pred = "slt" -> truth(v1 < v2)
      [] pred = "sgt" -> truth(v1 > v2)
      [] pred = "sle" -> truth(v1 <= v2)
      [] pred = "sge" -> truth(v1 >= v2)
      [] OTHER -> 0

\* The cases of evaluate_instruction with two operands, of lattice values
\* lval1 and lval2.
evaluate_two(opcode, pred, lval1, lval2) ==
    IF merge_lattice_values(lval1, lval2).state = "bottom" THEN LATTICE_BOTTOM
    ELSE IF lval1.state = "constant" /\ lval2.state = "constant"
         THEN LATTICE_CONSTANT(IF opcode = "icmp" THEN fold_icmp(pred, lval1.int_val, lval2.int_val)
                       ELSE fold_binary(opcode, lval1.int_val, lval2.int_val))
    ELSE merge_lattice_values(lval1, lval2)

\* ZEXT of an integer.
evaluate_one(opcode, lval1) ==
    IF lval1.state = "bottom" THEN LATTICE_BOTTOM
    ELSE IF lval1.state = "constant" THEN LATTICE_CONSTANT(lval1.int_val)
    ELSE lval1

\* c = [h, ids, value_lattice, executable_blocks, cfg_worklist, ssa_worklist,
\* iteration_count, changed, visits]: ids lists the values with an id, the
\* value of id i at index i + 1, and value_lattice follows it;
\* executable_blocks is the set of the post_order_ids whose flag is set; the
\* top of a worklist is its last element.  visits records what the visit of a
\* br found and marked.
get_value_id(c, val) ==
    IF val = NULL \/ c.h.vals[val].is_constant THEN -1
    ELSE IF \E i \in 1..Len(c.ids) : c.ids[i] = val
         THEN (CHOOSE i \in 1..Len(c.ids) : c.ids[i] = val) - 1
    ELSE -1

get_lattice_value(c, val) ==
    IF val = NULL THEN LATTICE_BOTTOM
    ELSE IF c.h.vals[val].is_constant THEN LATTICE_CONSTANT(c.h.vals[val].int_val)
    ELSE IF get_value_id(c, val) # -1 THEN c.value_lattice[get_value_id(c, val) + 1]
    ELSE LATTICE_BOTTOM

set_lattice_value(c, val, new_lval) ==
    IF get_value_id(c, val) = -1 THEN c
    ELSE IF are_lattice_values_equal(c.value_lattice[get_value_id(c, val) + 1], new_lval) THEN c
    ELSE [c EXCEPT !.value_lattice[get_value_id(c, val) + 1] = new_lval,
                   !.ssa_worklist = Append(@, val),
                   !.changed = TRUE]

is_executable(c, bb) == c.h.bbs[bb].post_order_id \in c.executable_blocks

operand_value(c, instr, k) ==
    IF k <= Len(c.h.instrs[instr].operands) THEN c.h.ops[c.h.instrs[instr].operands[k]].data
    ELSE NULL

\* The incoming values of the PHI whose blocks are executable, merged from Top.
RECURSIVE evaluate_phi(_, _, _, _)
evaluate_phi(c, instr, k, merged) ==
    IF k > Len(c.h.instrs[instr].operands) THEN merged
    ELSE evaluate_phi(c, instr, k + 2,
                      IF is_executable(c, operand_value(c, instr, k + 1))
                      THEN merge_lattice_values(merged, get_lattice_value(c, operand_value(c, instr, k)))
                      ELSE merged)

evaluate_instruction(c, instr) ==
    IF instr = NULL THEN LATTICE_BOTTOM
    ELSE IF c.h.instrs[instr].opcode \in {"add", "sub", "mul", "sdiv", "srem", "icmp"}
         THEN evaluate_two(c.h.instrs[instr].opcode, c.h.instrs[instr].opcode_cond,
                           get_lattice_value(c, operand_value(c, instr, 1)),
                           get_lattice_value(c, operand_value(c, instr, 2)))
    ELSE IF c.h.instrs[instr].opcode = "zext"
         THEN evaluate_one("zext", get_lattice_value(c, operand_value(c, instr, 1)))
    ELSE IF c.h.instrs[instr].opcode = "phi" THEN evaluate_phi(c, instr, 1, LATTICE_TIR_OP)
    ELSE LATTICE_BOTTOM

\* A PHI of the target: it has a dest.
visit_phi(c, phi) ==
    IF get_lattice_value(c, c.h.instrs[phi].dest).state = "bottom" THEN c
    ELSE set_lattice_value(c, c.h.instrs[phi].dest, evaluate_instruction(c, phi))

RECURSIVE visit_phis(_, _)
visit_phis(c, phis) ==
    IF phis = <<>> THEN c ELSE visit_phis(visit_phi(c, Head(phis)), Tail(phis))

visit_phi_operands(c, to) ==
    IF ~is_executable(c, to) THEN c ELSE visit_phis(c, BlockPhis(c.h, to))

\* if (target && !executable_blocks[target->post_order_id]) { ... }
mark_executable(c, target) ==
    IF target = NULL \/ is_executable(c, target) THEN c
    ELSE visit_phi_operands([c EXCEPT !.executable_blocks = @ \cup {c.h.bbs[target].post_order_id},
                                      !.cfg_worklist = Append(@, target)],
                            target)

visited(c, instr, cond, before) ==
    [c EXCEPT !.visits = Append(@, [instr |-> instr, cond |-> cond, before |-> before,
                                    after |-> c.executable_blocks])]

visit_cond_br(c, instr, cond_lval) ==
    IF cond_lval.state = "constant"
    THEN mark_executable(c, IF cond_lval.int_val # 0 THEN operand_value(c, instr, 2)
                            ELSE operand_value(c, instr, 3))
    ELSE c

visit_instruction(c, instr) ==
    IF instr = NULL \/ ~is_executable(c, c.h.instrs[instr].parent) THEN c
    ELSE IF c.h.instrs[instr].dest # NULL
         THEN IF get_lattice_value(c, c.h.instrs[instr].dest).state = "bottom" THEN c
              ELSE set_lattice_value(c, c.h.instrs[instr].dest, evaluate_instruction(c, instr))
    ELSE IF c.h.instrs[instr].opcode = "br" /\ Len(c.h.instrs[instr].operands) > 1
         THEN visited(visit_cond_br(c, instr, get_lattice_value(c, operand_value(c, instr, 1))),
                      instr, get_lattice_value(c, operand_value(c, instr, 1)),
                      c.executable_blocks)
    ELSE IF c.h.instrs[instr].opcode = "br"
         THEN visited(mark_executable(c, operand_value(c, instr, 1)), instr, LATTICE_TIR_OP,
                      c.executable_blocks)
    ELSE c

RECURSIVE visit_instructions(_, _)
visit_instructions(c, instrs) ==
    IF instrs = <<>> THEN c
    ELSE visit_instructions(visit_instruction(c, Head(instrs)), Tail(instrs))

sccp_visit_block(c, bb) ==
    IF ~is_executable(c, bb) THEN c ELSE visit_instructions(c, BlockInstrs(c.h, bb))

\* for (use = val->use_list_head; use; use = use->next_use) visit_instruction(ctx, use->user);
RECURSIVE visit_users(_, _)
visit_users(c, uses) ==
    IF uses = <<>> THEN c
    ELSE visit_users(visit_instruction(c, c.h.ops[Head(uses)].user), Tail(uses))

pop_block(c) ==
    IF c.cfg_worklist = <<>> THEN c
    ELSE sccp_visit_block([c EXCEPT !.cfg_worklist = SubSeq(@, 1, Len(@) - 1)],
                     c.cfg_worklist[Len(c.cfg_worklist)])

pop_value(c) ==
    IF c.ssa_worklist = <<>> THEN c
    ELSE visit_users([c EXCEPT !.ssa_worklist = SubSeq(@, 1, Len(@) - 1)],
                     UseList(c.h, c.ssa_worklist[Len(c.ssa_worklist)]))

RECURSIVE run_sccp_analysis(_)
run_sccp_analysis(c) ==
    IF (c.cfg_worklist = <<>> /\ c.ssa_worklist = <<>>) \/ c.iteration_count >= SccpMaxIterations
    THEN c
    ELSE run_sccp_analysis(pop_value(pop_block([c EXCEPT !.iteration_count = @ + 1])))

\* The dests of the linked instructions get the ids 0, 1, .. in the order of
\* the lists.
RECURSIVE dests_of(_, _)
dests_of(h, instrs) ==
    IF instrs = <<>> THEN <<>>
    ELSE IF h.instrs[Head(instrs)].dest # NULL
         THEN <<h.instrs[Head(instrs)].dest>> \o dests_of(h, Tail(instrs))
    ELSE dests_of(h, Tail(instrs))

assign_value_ids(h) == dests_of(h, function_instructions(h))

\* The arguments have no id, so that setting them to LATTICE_BOTTOM sets nothing.
initialize_sccp(h) ==
    [h |-> h, ids |-> assign_value_ids(h),
     value_lattice |-> [i \in 1..Len(assign_value_ids(h)) |-> LATTICE_TIR_OP],
     executable_blocks |-> {h.bbs[h.func.entry].post_order_id},
     cfg_worklist |-> <<h.func.entry>>, ssa_worklist |-> <<>>,
     iteration_count |-> 0, changed |-> FALSE, visits |-> <<>>]

create_constant_from_lattice(h, lval) == create_const_int(h, lval.int_val)

\* The registers whose lattice value is a constant are replaced by a new
\* constant, here in the order of their ids (the code walks its hash map).
RECURSIVE replace_constants(_, _)
replace_constants(c, i) ==
    IF ~Ok(c.h) \/ i > Len(c.ids) THEN c
    ELSE IF c.value_lattice[i].state = "constant"
         THEN replace_constants(
                  [c EXCEPT !.h = replace_all_uses_with(
                                      create_constant_from_lattice(@, c.value_lattice[i]),
                                      TRUE, c.ids[i], Len(@.vals) + 1),
                            !.changed = TRUE],
                  i + 1)
    ELSE replace_constants(c, i + 1)

\* if (term->prev) term->prev->next = new_br; else bb->head = new_br;
\* new_br->prev = term->prev; bb->tail = new_br;
link_new_br(h, bb, new_br, prev) ==
    IF prev # NULL
    THEN [h EXCEPT !.instrs[prev].next = new_br, !.instrs[new_br].prev = prev,
                   !.bbs[bb].tail = new_br]
    ELSE [h EXCEPT !.bbs[bb].head = new_br, !.instrs[new_br].prev = prev,
                   !.bbs[bb].tail = new_br]

new_br_to(h, bb, new_br, final_target) ==
    add_bb_operand(set_parent(create_ir_instruction(h, "br"), new_br, bb), new_br, final_target)

rewrite_branch(h, bb, term, final_target, dead_succ) ==
    erase_instruction(
        link_new_br(new_br_to(remove_predecessor(h, dead_succ, bb), bb, Len(h.instrs) + 1,
                              final_target),
                    bb, Len(h.instrs) + 1, h.instrs[term].prev),
        term)

\* c.rewrites records the branches rewritten, with the list of the block as it
\* was.
rewritten(c, h, bb, final_target, dead_succ) ==
    [c EXCEPT !.h = rewrite_branch(h, bb, h.bbs[bb].tail, final_target, dead_succ),
              !.changed = TRUE,
              !.rewrites = Append(@, [bb |-> bb, final_target |-> final_target,
                                      dead_succ |-> dead_succ, instrs |-> BlockInstrs(h, bb)])]

rewrite_constant_branch(c, bb, term, cond_lval) ==
    IF cond_lval.state # "constant" THEN c
    ELSE IF cond_lval.int_val # 0
         THEN rewritten(c, c.h, bb, operand_value(c, term, 2), operand_value(c, term, 3))
    ELSE rewritten(c, c.h, bb, operand_value(c, term, 3), operand_value(c, term, 2))

RECURSIVE rewrite_branches(_, _)
rewrite_branches(c, blocks) ==
    IF ~Ok(c.h) \/ blocks = <<>> THEN c
    ELSE IF \/ ~is_executable(c, Head(blocks))
            \/ c.h.bbs[Head(blocks)].tail = NULL
            \/ c.h.instrs[c.h.bbs[Head(blocks)].tail].opcode # "br"
            \/ Len(c.h.instrs[c.h.bbs[Head(blocks)].tail].operands) <= 1
         THEN rewrite_branches(c, Tail(blocks))
    ELSE rewrite_branches(
             rewrite_constant_branch(c, Head(blocks), c.h.bbs[Head(blocks)].tail,
                                     get_lattice_value(c, operand_value(c, c.h.bbs[Head(blocks)].tail, 1))),
             Tail(blocks))

transform_based_on_sccp(c) ==
    rewrite_branches(replace_constants([c EXCEPT !.changed = FALSE], 1), FuncBlocks(c.h))

----------------------------------------------------------------------------
(* run_sccp on functions of SCCPBlocks blocks *)

SCCPBlocks == 3

\* What every block computes before its terminator: nothing, or an add of the
\* argument, of the constant 1 twice, or of the constants 1 and 0.
SCCPBodies == {"none", "add_arg", "add_same", "add_diff"}

with_sccp_body(h, b, body) ==
    CASE body = "none" -> h
      [] body = "add_arg" -> emit(h, b, "add", TRUE, <<V(1), V(1)>>)
      [] body = "add_same" -> emit(h, b, "add", TRUE, <<V(2), V(2)>>)
      [] body = "add_diff" -> emit(h, b, "add", TRUE, <<V(2), V(3)>>)

\* The pairs of a PHI: the argument from every predecessor, or the constant 1
\* from the first one and the constant 0 from the others.
RECURSIVE sccp_phi_pairs(_, _, _)
sccp_phi_pairs(preds, incoming, first) ==
    IF preds = <<>> THEN <<>>
    ELSE <<V(IF incoming = "arg" THEN 1 ELSE IF first THEN 2 ELSE 3), B(Head(preds))>>
             \o sccp_phi_pairs(Tail(preds), incoming, FALSE)

with_sccp_phi(h, b, preds, phis, incoming) ==
    IF b \in phis /\ preds # <<>>
    THEN emit(h, b, "phi", TRUE, sccp_phi_pairs(preds, incoming, TRUE))
    ELSE h

RECURSIVE with_sccp_bodies(_, _, _, _, _, _, _)
with_sccp_bodies(h, terms, b, cond, phis, incoming, body) ==
    IF ~Ok(h) \/ b > Len(terms) THEN h
    ELSE with_sccp_bodies(
             with_terminator(
                 with_sccp_body(with_sccp_phi(h, b, TermPreds(terms, b), phis, incoming), b, body),
                 b, terms[b], cond),
             terms, b + 1, cond, phis, incoming, body)

\* Value 1 is the argument, value 2 the constant 1, value 3 the constant 0 and,
\* if the blocks have a body, value 4 the result of the add of the entry block;
\* cond is one of them.
sccp_function(terms, cond, phis, incoming, body) ==
    compute_dominators(
        build_cfg(
            with_sccp_bodies(
                create_ir_value(create_ir_value(function_skeleton(1, Len(terms)), "const", 1),
                                "const", 0),
                terms, 1, cond, phis, incoming, body)))

SCCPPhis == {<<{}, "arg">>, <<{2}, "arg">>, <<{2}, "consts">>, <<{2, 3}, "arg">>, <<{2, 3}, "consts">>}

InitSCCP == InitSCFG

GenerateSCCP ==
    /\ last.op = "init"
    /\ \E terms \in ConnectedTerminators(SCCPBlocks), cond \in 1..4, phis \in SCCPPhis,
          body \in SCCPBodies :
         /\ cond = 4 => body # "none"
         /\ ir' = sccp_function(terms, cond, phis[1], phis[2], body)
         /\ last' = [n |-> 1, op |-> "generate", before |-> ir']
    /\ UNCHANGED <<build, exec>>

\* run_sccp up to the return of run_sccp_analysis; the analysis leaves the
\* function as it is.
analysed(c) ==
    /\ exec' = [state |-> "analysed", ids |-> c.ids, value_lattice |-> c.value_lattice,
                executable_blocks |-> c.executable_blocks, visits |-> c.visits]
    /\ last' = [n |-> 2, op |-> "run_sccp_analysis", before |-> ir]

RunSccpAnalysis ==
    /\ Ok(ir)
    /\ last.op = "generate"
    /\ ir.func.entry # NULL
    /\ analysed(run_sccp_analysis(initialize_sccp(ir)))
    /\ UNCHANGED <<build, ir>>

transformed(c) ==
    /\ ir' = c.h
    /\ last' = [n |-> 3, op |-> "run_sccp", before |-> ir, rewrites |-> c.rewrites]

TransformBasedOnSccp ==
    /\ last.op = "run_sccp_analysis"
    /\ transformed(transform_based_on_sccp(
           [h |-> ir, ids |-> exec.ids, value_lattice |-> exec.value_lattice,
            executable_blocks |-> exec.executable_blocks, changed |-> FALSE, rewrites |-> <<>>]))
    /\ UNCHANGED <<build, exec>>

NextSCCP == GenerateSCCP \/ RunSccpAnalysis \/ TransformBasedOnSccp

SpecSCCP == InitSCCP /\ [][NextSCCP]_vars

\* The post_order_ids that the visit of the br must mark: of the target of an
\* unconditional br, of the successor a constant condition selects, of both
\* successors if the condition is Bottom.
MustMark(h, instr, cond) ==
    LET target(k) == h.bbs[h.ops[h.instrs[instr].operands[k]].data].post_order_id IN
    IF Len(h.instrs[instr].operands) = 1 THEN {target(1)}
    ELSE IF cond.state = "constant" THEN {IF cond.int_val # 0 THEN target(2) ELSE target(3)}
    ELSE IF cond.state = "bottom" THEN {target(2), target(3)}
    ELSE {}

\* C22: the visit of the terminator of a reachable block leaves marked, besides
\* the blocks marked before, the target of an unconditional br, the one
\* successor selected by a constant condition, both successors of a Bottom
\* condition.
C22_VisitMarksSuccessors ==
    last.op = "run_sccp_analysis" =>
        \A k \in 1..Len(exec.visits) :
            exec.visits[k].after
                = exec.visits[k].before \cup MustMark(ir, exec.visits[k].instr, exec.visits[k].cond)

\* C24: a block whose conditional branch on a constant was rewritten ends with
\* one terminator, the last of its list and its tail, an unconditional br to
\* the surviving target; the instructions before the old branch are in the
\* list as before; the dead successor does not name the block among its
\* predecessors nor in its PHIs.
C24_RewrittenBranch ==
    (last.op = "run_sccp" /\ Ok(ir)) =>
        \A k \in 1..Len(last.rewrites) :
            LET w == last.rewrites[k]
                list == BlockInstrs(ir, w.bb)
            IN /\ list # <<>>
               /\ ir.bbs[w.bb].tail = list[Len(list)]
               /\ TerminatorsOf(ir, w.bb) = {Len(list)}
               /\ ir.instrs[list[Len(list)]].opcode = "br"
               /\ Len(ir.instrs[list[Len(list)]].operands) = 1
               /\ OperandData(ir, list[Len(list)], 1) = w.final_target
               /\ SubSeq(list, 1, Len(list) - 1) = SubSeq(w.instrs, 1, Len(w.instrs) - 1)
               /\ w.dead_succ # w.final_target =>
                     /\ w.bb \notin Range(Pred(ir, w.dead_succ))
                     /\ \A phi \in Range(BlockPhis(ir, w.dead_succ)) :
                           w.bb \notin Range(PhiBlocks(ir, phi))

----------------------------------------------------------------------------
(* The executions of a function, to compare the analysis of run_sccp with *)

\* An execution visits at most MaxVisits blocks after the entry block.
MaxVisits == 4

ArgumentValues == {0, 1}

value_in(h, env, v) == IF h.vals[v].is_constant THEN h.vals[v].int_val ELSE env[v]

\* The values a PHI may take when the block is entered from prev: those of the
\* pairs that name prev.
phi_values(h, env, phi, prev) ==
    {value_in(h, env, OperandData(h, phi, 2 * k - 1)) :
        k \in {j \in 1..(Len(h.instrs[phi].operands) \div 2) : OperandData(h, phi, 2 * j) = prev}}

\* The pairs <<register, value>> computed by the executions that go on with
\* the instructions of list, in block b entered from prev, besides seen.
RECURSIVE execute(_, _, _, _, _, _, _)
execute(h, b, prev, list, env, fuel, seen) ==
    IF list = <<>> THEN seen
    ELSE LET i == Head(list)
             ins == h.instrs[i]
             sum == value_in(h, env, OperandData(h, i, 1)) + value_in(h, env, OperandData(h, i, 2))
             target == IF Len(ins.operands) = 1 THEN OperandData(h, i, 1)
                       ELSE IF value_in(h, env, OperandData(h, i, 1)) # 0
                            THEN OperandData(h, i, 2)
                            ELSE OperandData(h, i, 3)
         IN CASE ins.opcode = "phi" ->
                   seen \cup UNION {execute(h, b, prev, Tail(list), [env EXCEPT ![ins.dest] = x],
                                            fuel, seen \cup {<<ins.dest, x>>}) :
                                        x \in phi_values(h, env, i, prev)}
              [] ins.opcode = "add" ->
                   execute(h, b, prev, Tail(list), [env EXCEPT ![ins.dest] = sum],
                           fuel, seen \cup {<<ins.dest, sum>>})
              [] ins.opcode = "br" /\ fuel > 0 ->
                   execute(h, target, b, BlockInstrs(h, target), env, fuel - 1, seen)
              [] OTHER -> seen

\* What the registers of the function hold in its executions from the entry
\* block, with the argument a.
Computed(h, a) ==
    execute(h, h.func.entry, NULL, BlockInstrs(h, h.func.entry),
            [v \in 1..Len(h.vals) |-> IF h.vals[v].cls = "arg" THEN a ELSE 0], MaxVisits, {})

\* The registers the analysis holds Constant, with the constant.
MarkedConstant(c) ==
    {<<v, get_lattice_value(c, v).int_val>> :
        v \in {w \in 1..Len(c.h.vals) :
                 /\ c.h.vals[w].cls = "reg"
                 /\ get_lattice_value(c, w).state = "constant"}}

\* C6: a register that the analysis of run_sccp holds Constant with c is
\* computed as c by every execution that reaches its definition.
C6_ConstantsAreSound ==
    last.op = "run_sccp_analysis" =>
        \A m \in MarkedConstant([h |-> ir, ids |-> exec.ids, value_lattice |-> exec.value_lattice]) :
            \A a \in ArgumentValues :
                \A o \in Computed(ir, a) : o[1] = m[1] => o[2] = m[2]

----------------------------------------------------------------------------
(* evaluate_instruction on one instruction, for every lattice value of its   *)
(* operands                                                                   *)

EvalInts == {-3, 0, 3, 4}
EvalOpcodes == {"add", "sub", "mul", "sdiv", "srem", "icmp", "zext"}
IcmpPreds == {"eq", "ne", "slt", "sgt", "sle", "sge"}

\* An operand is a literal constant, or a register with any lattice value.
EvalOperands ==
    [reg : {TRUE}, lval : {LATTICE_TIR_OP, LATTICE_BOTTOM} \cup {LATTICE_CONSTANT(c) : c \in EvalInts}]
        \cup [reg : {FALSE}, lval : {LATTICE_CONSTANT(c) : c \in EvalInts}]

with_opcode_cond(h, pred) == [h EXCEPT !.instrs[Len(h.instrs)].opcode_cond = pred]

\* %r1 = call ..; %r2 = call ..; %t = opcode o1, o2 in the entry block: the
\* values 1 and 2 are the literals, 3 and 4 the registers %r1 and %r2.
eval_function(opcode, pred, o1, o2) ==
    with_opcode_cond(
        emit(emit(emit(create_const_int(create_const_int(function_skeleton(0, 1), o1.lval.int_val),
                                        o2.lval.int_val),
                       1, "call", TRUE, <<>>),
                  1, "call", TRUE, <<>>),
             1, opcode, TRUE,
             IF opcode = "zext" THEN <<V(IF o1.reg THEN 3 ELSE 1)>>
             ELSE <<V(IF o1.reg THEN 3 ELSE 1), V(IF o2.reg THEN 4 ELSE 2)>>),
        pred)

\* The analysis has given %r1 and %r2 their lattice values.
with_lattice_values(c, o1, o2) ==
    [c EXCEPT !.value_lattice = <<o1.lval, o2.lval, LATTICE_TIR_OP>>]

evaluated(h, opcode, pred, o1, o2) ==
    /\ ir' = h
    /\ last' = [n |-> 1, op |-> "evaluate_instruction", opcode |-> opcode, pred |-> pred,
                operands |-> IF opcode = "zext" THEN <<o1.lval>> ELSE <<o1.lval, o2.lval>>,
                result |-> evaluate_instruction(with_lattice_values(initialize_sccp(h), o1, o2), 3)]

EvaluateInstruction ==
    /\ last.op = "init"
    /\ \E opcode \in EvalOpcodes, pred \in IcmpPreds, o1 \in EvalOperands, o2 \in EvalOperands :
         /\ opcode # "icmp" => pred = "eq"
         /\ opcode = "zext" => o2 = o1
         /\ evaluated(eval_function(opcode, IF opcode = "icmp" THEN pred ELSE "", o1, o2),
                      opcode, pred, o1, o2)
    /\ UNCHANGED <<build, exec>>

NextEval == EvaluateInstruction

SpecEval == InitSCFG /\ [][NextEval]_vars

\* The value of the instruction on constant operands.
FoldedConstant(opcode, pred, operands) ==
    IF opcode = "zext" THEN operands[1].int_val
    ELSE IF opcode = "icmp" THEN fold_icmp(pred, operands[1].int_val, operands[2].int_val)
    ELSE fold_binary(opcode, operands[1].int_val, operands[2].int_val)

\* C23: the evaluation gives Bottom if an operand is Bottom; otherwise Top if
\* an operand is Top; otherwise, all operands being constants, the constant
\* folded from them.
C23_EvaluationFollowsTheLattice ==
    last.op = "evaluate_instruction" =>
        IF \E k \in 1..Len(last.operands) : last.operands[k].state = "bottom"
        THEN last.result.state = "bottom"
        ELSE IF \E k \in 1..Len(last.operands) : last.operands[k].state = "top"
        THEN last.result.state = "top"
        ELSE last.result = LATTICE_CONSTANT(FoldedConstant(last.opcode, last.pred, last.operands))

============================================================================
